---- MODULE Spec2Model ----
(***************************************************************************)
(* State-machine model of the construction scheduler of sxdo1/simworld     *)
(* (src/src/systems/construction.ts, class ConstructionSystem) together    *)
(* with the part of the tick orchestrator that drives it                   *)
(* (src/unnamed/part_009, class CitySimulation: addBuilding,               *)
(* removeBuilding, updateConstruction).                                    *)
(*                                                                         *)
(* Numbers.  The code computes with floating point; the model uses fixed   *)
(* point.  Progress is counted in units of 1/PROGRESS_ONE, the factors of  *)
(* the progress rate (worker efficiency, weather, material quality,        *)
(* economic conditions) are percentages, material quantities are tenths,   *)
(* wall-clock time (Date.now()) is counted in days and deltaTime in        *)
(* hundredths of a day.                                                    *)
(*                                                                         *)
(* Fields that are written but never read back into the modelled state     *)
(* (scheduledProgress, qualityRating, inspectionsPassed, safetyIncidents,  *)
(* delayReason, actualDuration, property_value) are not represented.       *)
(***************************************************************************)
EXTENDS Integers, Sequences, FiniteSets, TLC

VARIABLES
    now,                 \* Date.now(), in days
    projects,            \* ConstructionSystem.projects: Map<projectId, ConstructionProject>
    completedProjects,   \* ConstructionSystem.completedProjects
    workers,             \* ConstructionSystem.workers
    weatherConditions,   \* percent
    economicConditions,  \* percent
    nextProjectSeq,      \* number of project ids generated so far
    updateCalls,         \* number of ConstructionSystem.updateConstruction calls made
    deliveries,          \* number of deliveries recorded
    poolCalls,           \* number of hireWorkers and fireWorker calls that changed the pool
    buildings,           \* the caller-owned Building objects
    simBuildings,        \* CitySimulation.buildings (references to Building objects)
    ret,                 \* what the last call returned
    obstacles,           \* PathfindingSystem.obstacles: the blocked cells
    roads,               \* PathfindingSystem.roads: the road cells
    search,              \* the findPath call in progress: its arguments and aStarSearch's locals
    pathRet,             \* what the last findPath call returned, and whether it searched
    perfNow,             \* performance.now(), in milliseconds
    simState,            \* CitySimulation.state
    updateIntervals,     \* CitySimulation.updateIntervals: the '<system>_last' entries
    simRoads,            \* CitySimulation.roads
    agents,              \* CitySimulation.agents
    ran,                 \* the subsystems the last update call ran, and when each last ran
    topologyChanged,     \* a building or road changed since updatePathfinding last ran
    businesses,          \* EconomicEngine.businesses
    econCalls,           \* number of updateEconomy calls made
    tradeGoods,          \* EconomicEngine.tradeGoods: supply, demand and price of every good
    inflationRate,       \* EconomicEngine.inflationRate, in millionths
    economicData,        \* EconomicEngine.economicData, as far as updateEconomy reads or writes it
    report,              \* the EconomicReport the last updateEconomy call returned
    terrainCells,        \* TerrainSystem.terrainCells
    environmentalFactors, \* TerrainSystem.environmentalFactors
    waterBodies,         \* TerrainSystem.waterBodies
    protectedAreas,      \* TerrainSystem.protectedAreas
    updateQueue,         \* TerrainSystem.updateQueue
    lastGlobalUpdate,    \* TerrainSystem.lastGlobalUpdate, in milliseconds
    terrainCalls,        \* number of updateTerrainValues and updateEnvironmentalFactors calls made
    factorsMethod,       \* the body a call of updateEnvironmentalFactors(buildings, agents) reaches
    syncCities,          \* CitySync.regionState.cities
    syncQueue,           \* CitySync.syncQueue
    conflictQueue,       \* CitySync.conflictQueue
    synchronizing,       \* the synchronize call suspended at its await, and the calls it awaits
    storageCalls,        \* the (cityId, data) pairs storage.updateCity was called with
    storageFailures,     \* the storage.updateCity calls that were rejected
    lastAccepted,        \* for every city, the data of the last update updateCity stored
    isInitialized,       \* useGameStore.isInitialized
    gameTime,            \* useGameStore.gameTime, in game minutes
    storeBuildings,      \* useGameStore.buildings
    cityStats,           \* useGameStore.cityStats
    achievements,        \* useGameStore.achievements
    unlockCount,         \* for every achievement, how often unlockAchievement unlocked it
    storeCalls           \* number of calls made on useGameStore

constructionVars == <<now, projects, completedProjects, workers, weatherConditions,
                      economicConditions, nextProjectSeq, updateCalls, deliveries,
                      poolCalls, buildings, simBuildings>>
pathVars == <<obstacles, roads, search, pathRet>>
clockVars == <<perfNow, simState, updateIntervals, simRoads, agents, ran, topologyChanged>>
econVars == <<businesses, econCalls, tradeGoods, inflationRate, economicData, report>>

terrainVars == <<terrainCells, environmentalFactors, waterBodies, protectedAreas,
                 updateQueue, lastGlobalUpdate, terrainCalls, factorsMethod>>

syncVars == <<syncCities, syncQueue, conflictQueue, synchronizing, storageCalls,
              storageFailures, lastAccepted>>

storeVars == <<isInitialized, gameTime, storeBuildings, cityStats, achievements,
               unlockCount, storeCalls>>

vars == <<constructionVars, ret, pathVars, clockVars, econVars, terrainVars, syncVars,
          storeVars>>

---------------------------------------------------------------------------
(* Bounds of the model *)

InitialWorkerCount == 2
NumBuildings == 2

\* Spec
MaxProjects == 1
MaxNow == 4
MaxUpdateCalls == 3
MaxDeliveries == 3

\* PoolSpec
PoolMaxProjects == 2
PoolMaxNow == 2
PoolMaxUpdateCalls == 1
PoolMaxDeliveries == 2
PoolMaxPoolCalls == 2
MaxWorkers == 3

\* SyncSpec
NumCities == 2
MaxCityUpdates == 3

\* StoreSpec
MaxStoreBuildings == 2
MaxStoreCalls == 5

\* CitySpec
CityMaxProjects == 1
CityMaxNow == 2
CityMaxUpdateCalls == 2
CityMaxDeliveries == 2
CityMaxPoolCalls == 1

---------------------------------------------------------------------------
(* Program constants and fixed-point scales *)

PROGRESS_ONE == 10000          \* actualProgress 1.0
PERCENT == 100                 \* a factor of 1.0
TENTHS == 10                   \* a material quantity of 1.0
RATE_SCALE == 100              \* the daily rate is kept in 1/RATE_SCALE progress units
DT_PER_DAY == 100              \* deltaTime is counted in 1/100 day (864 s)
DEFAULT_CONSTRUCTION_TIME == 30
MATERIAL_DELAY_DAYS == 2
NO_WORKER_EFFICIENCY == 10
MIN_EVENT_WEATHER == 30
WEATHER_EVENT_DROP == 20
SECONDS_PER_DT == 864          \* 24 * 60 * 60 / DT_PER_DAY
UNDEFINED_DATE == 0            \* deliveryDate undefined: falsy, like the code's test

Min(a, b) == IF a <= b THEN a ELSE b
Max(a, b) == IF a >= b THEN a ELSE b

NoProject == <<>>              \* assignedProjectId undefined

\* What a call returns: nothing, a boolean, a project id, a number
Void == "void"
Bool(x) == IF x THEN "true" ELSE "false"
ReturnedId == "projectId"
ReturnedNumber == "number"

---------------------------------------------------------------------------
(* Inputs *)

\* BuildingUtils.generateBuildingForZone("residential", "low"): size 2 x 3 x 2,
\* cost 10000 (no BUILDING_COSTS table), constructionTime 24.
ResidentialLow ==
    [id |-> "residential_low", width |-> 2, height |-> 3, depth |-> 2,
     cost |-> 10000, constructionTime |-> 24]

Blueprints == {ResidentialLow}

\* deltaTime in 1/100 day: a zero step, a frame-sized step (864 s), ten days
\* (crosses one phase boundary at most) and sixty days (carries any progress
\* to 1.0).
DeltaTimes == {0, 1, 1000, 6000}

\* calculateMaterialRequirements: the average of quality = 0.8 + Math.random() * 0.2
\* over the project's materials (percent)
MaterialQualities == {90}

\* orderMaterials: 2 + Math.random() * 3 days
DeliveryDelays == {2, 4}

\* generateInitialWorkers / hireWorkers: the specializations that matter to
\* assignWorkers ('general' is eligible in every phase, 'electrical' in the
\* Systems phase only) and one efficiency of 0.6 .. 1.0 (percent).
Specializations == {"general", "electrical"}
Efficiencies == {80}

\* how far one step of the wall clock advances Date.now(), in days
TickSteps == {2}

\* fractions of the required quantity that one delivery brings (percent)
ShipmentPercents == {40, 100}

BuildingObjs == 1 .. NumBuildings
BuildingId(n) == <<"building", n>>
ProjectId(n) == <<"construction", n>>
WorkerId(t, i) == <<"worker", t, i>>
UnknownId == <<"unknown">>

---------------------------------------------------------------------------
(* generateConstructionPhases *)

MaterialTypes ==
    {"concrete", "steel", "lumber", "brick", "glass", "electrical",
     "plumbing", "roofing", "insulation", "flooring"}

generateConstructionPhases ==
    << [name |-> "Foundation", startProgress |-> 0, endProgress |-> 2000,
        requiredMaterials |-> {"concrete", "steel"}, requiredWorkers |-> 4],
       [name |-> "Structure", startProgress |-> 2000, endProgress |-> 6000,
        requiredMaterials |-> {"steel", "concrete", "lumber"}, requiredWorkers |-> 8],
       [name |-> "Systems", startProgress |-> 6000, endProgress |-> 8500,
        requiredMaterials |-> {"electrical", "plumbing"}, requiredWorkers |-> 6],
       [name |-> "Finishing", startProgress |-> 8500, endProgress |-> PROGRESS_ONE,
        requiredMaterials |-> {"flooring", "roofing", "glass"}, requiredWorkers |-> 6] >>

NumPhases == Len(generateConstructionPhases)

\* project.phases[project.currentPhase]; currentPhase is 0-based as in the code
PhaseAt(i) == generateConstructionPhases[i + 1]

\* calculateMaterialRequirements, in tenths
calculateMaterialRequirements(bp) ==
    LET buildingSize == bp.width * bp.depth * bp.height
    IN  [m \in MaterialTypes |->
            CASE m = "concrete"   -> buildingSize * 8
              [] m = "steel"      -> buildingSize * 3
              [] m = "lumber"     -> buildingSize * 4
              [] m = "brick"      -> buildingSize * 2
              [] m = "glass"      -> buildingSize * 1
              [] m = "electrical" -> Max(1, buildingSize \div 100) * TENTHS
              [] m = "plumbing"   -> Max(1, buildingSize \div 150) * TENTHS
              [] m = "roofing"    -> bp.width * bp.depth * TENTHS
              [] m = "insulation" -> buildingSize * 2
              [] m = "flooring"   -> bp.width * bp.depth * 2 * TENTHS]

\* materialPrices set by initializeSystem
materialPrices ==
    [m \in MaterialTypes |->
        CASE m = "concrete"   -> 150
          [] m = "steel"      -> 800
          [] m = "lumber"     -> 400
          [] m = "brick"      -> 300
          [] m = "glass"      -> 200
          [] m = "electrical" -> 1000
          [] m = "plumbing"   -> 600
          [] m = "roofing"    -> 250
          [] m = "insulation" -> 180
          [] m = "flooring"   -> 350]

RECURSIVE SumOver(_, _)
SumOver(f, S) ==
    IF S = {} THEN 0
    ELSE LET x == CHOOSE y \in S : TRUE IN f[x] + SumOver(f, S \ {x})

\* estimateTotalCost: (cost + materials) + 40% labor, then + 15% overhead
estimateTotalCost(bp) ==
    LET required == calculateMaterialRequirements(bp)
        materialCost ==
            SumOver([m \in MaterialTypes |-> materialPrices[m] * required[m]],
                    MaterialTypes) \div TENTHS
        withLabor == ((bp.cost + materialCost) * 140) \div PERCENT
    IN  (withLabor * 115) \div PERCENT

\* estimateConstructionTime, in days: the phase durations add up to
\* constructionTime; divided by weather and economic conditions
estimateConstructionTime(bp, weather, economic) ==
    (bp.constructionTime * PERCENT * PERCENT) \div (weather * economic)

\* calculateOptimalWorkerCount
calculateOptimalWorkerCount(bp) ==
    LET buildingComplexity == (bp.width * bp.depth * bp.height) \div 100
    IN  Max(2, Min(12, (buildingComplexity \div 2) + 2))

---------------------------------------------------------------------------
(* Workers, materials and the progress rate *)

\* assignWorkers' filter: specialization === 'general' or a required material
\* and the specialization contain one another (no material name and no
\* specialization is a proper substring of another, so: are equal)
HasRelevantSkill(worker, phase) ==
    \/ worker.specialization = "general"
    \/ worker.specialization \in phase.requiredMaterials

\* A variant that does not filter on worker.availability
AssignedIndices_Busy(ws, phase, maxWorkers) ==
    LET requiredWorkers == Min(phase.requiredWorkers, maxWorkers)
        skilledWorkers == {i \in 1 .. Len(ws) : HasRelevantSkill(ws[i], phase)}
    IN  {i \in skilledWorkers :
            Cardinality({j \in skilledWorkers : j < i}) < requiredWorkers}

\* The indices of the workers assignWorkers takes: the first requiredWorkers
\* of the available workers with relevant skills
AssignedIndices(ws, phase, maxWorkers) ==
    LET requiredWorkers == Min(phase.requiredWorkers, maxWorkers)
        availableWorkers ==
            {i \in 1 .. Len(ws) : ws[i].availability /\ HasRelevantSkill(ws[i], phase)}
    IN  {i \in availableWorkers :
            Cardinality({j \in availableWorkers : j < i}) < requiredWorkers}

\* assignWorkers(projectId): the state with the workers taken and
\* project.workers set to their number
assignWorkers(S, projectId) ==
    IF projectId \notin DOMAIN S.projects THEN S
    ELSE
    LET project == S.projects[projectId]
        taken == AssignedIndices(S.workers, PhaseAt(project.currentPhase),
                                 project.maxWorkers)
    IN  [S EXCEPT
            !.workers =
                [i \in 1 .. Len(S.workers) |->
                    IF i \in taken
                    THEN [S.workers[i] EXCEPT !.availability = FALSE,
                                              !.assignedProjectId = projectId]
                    ELSE S.workers[i]],
            !.projects[projectId].workers = Cardinality(taken)]

\* orderMaterials(projectId): a delivery date for every material of the
\* current phase that is not fully delivered; delays[m] is the random delay
orderMaterials(S, projectId, delays, t) ==
    IF projectId \notin DOMAIN S.projects THEN S
    ELSE
    LET project == S.projects[projectId]
        currentPhase == PhaseAt(project.currentPhase)
        required == calculateMaterialRequirements(project.blueprint)
    IN  [S EXCEPT !.projects[projectId].deliveryDate =
            [m \in MaterialTypes |->
                IF m \in currentPhase.requiredMaterials
                   /\ project.delivered[m] < required[m]
                THEN t + delays[m]
                ELSE project.deliveryDate[m]]]

\* A variant that looks at the delivery dates only, not at the quantities
checkMaterialAvailability_DateOnly(project, phase, t) ==
    \A m \in phase.requiredMaterials :
        /\ project.deliveryDate[m] # UNDEFINED_DATE
        /\ project.deliveryDate[m] <= t

\* checkMaterialAvailability
checkMaterialAvailability(project, phase, t) ==
    LET required == calculateMaterialRequirements(project.blueprint)
    IN  \A m \in phase.requiredMaterials :
            /\ project.deliveryDate[m] # UNDEFINED_DATE
            /\ project.deliveryDate[m] <= t
            /\ project.delivered[m] * 2 >= required[m]

\* getProjectWorkerEfficiency (percent)
getProjectWorkerEfficiency(ws, projectId) ==
    LET projectWorkers == {i \in 1 .. Len(ws) : ws[i].assignedProjectId = projectId}
    IN  IF projectWorkers = {} THEN NO_WORKER_EFFICIENCY
        ELSE SumOver([i \in projectWorkers |-> ws[i].efficiency], projectWorkers)
                \div Cardinality(projectWorkers)

\* calculateProgressRate: progress per day, in 1/RATE_SCALE progress units
calculateProgressRate(S, project) ==
    LET constructionTime ==
            IF project.blueprint.constructionTime = 0
            THEN DEFAULT_CONSTRUCTION_TIME
            ELSE project.blueprint.constructionTime
        baseRate == (PROGRESS_ONE * RATE_SCALE) \div constructionTime
        withWorkers ==
            (baseRate * getProjectWorkerEfficiency(S.workers, project.id)) \div PERCENT
        withWeather == (withWorkers * S.weatherConditions) \div PERCENT
        withQuality == (withWeather * project.materialQuality) \div PERCENT
    IN  (withQuality * S.economicConditions) \div PERCENT

---------------------------------------------------------------------------
(* Phase and project completion, random events *)

RemoveKey(f, k) == [x \in DOMAIN f \ {k} |-> f[x]]

\* completePhase(project, phaseIndex); delays are orderMaterials' random delays
completePhase(S, projectId, phaseIndex, delays) ==
    LET marked == [S EXCEPT !.projects[projectId].phaseCompleted[phaseIndex] = TRUE]
    IN  IF phaseIndex < NumPhases - 1
        THEN LET moved == [marked EXCEPT !.projects[projectId].currentPhase = @ + 1]
             IN  orderMaterials(assignWorkers(moved, projectId), projectId, delays, S.now)
        ELSE marked

\* A variant that leaves building.status alone
completeProject_StatusKept(S, projectId, b) ==
    [S EXCEPT
        !.workers =
            [i \in 1 .. Len(S.workers) |->
                IF S.workers[i].assignedProjectId = projectId
                THEN [S.workers[i] EXCEPT !.availability = TRUE,
                                          !.assignedProjectId = NoProject]
                ELSE S.workers[i]],
        !.buildings[b].constructionProgress = PROGRESS_ONE,
        !.completedProjects = Append(S.completedProjects, S.projects[projectId]),
        !.projects = RemoveKey(S.projects, projectId)]

\* A variant that does not release the workers
completeProject_WorkersKept(S, projectId, b) ==
    [S EXCEPT
        !.buildings[b].status = "operational",
        !.buildings[b].constructionProgress = PROGRESS_ONE,
        !.completedProjects = Append(S.completedProjects, S.projects[projectId]),
        !.projects = RemoveKey(S.projects, projectId)]

\* completeProject(project, building)
completeProject(S, projectId, b) ==
    [S EXCEPT
        !.workers =
            [i \in 1 .. Len(S.workers) |->
                IF S.workers[i].assignedProjectId = projectId
                THEN [S.workers[i] EXCEPT !.availability = TRUE,
                                          !.assignedProjectId = NoProject]
                ELSE S.workers[i]],
        !.buildings[b].status = "operational",
        !.buildings[b].constructionProgress = PROGRESS_ONE,
        !.completedProjects = Append(S.completedProjects, S.projects[projectId]),
        !.projects = RemoveKey(S.projects, projectId)]

EventTypes ==
    {"weather_delay", "material_delay", "equipment_breakdown", "worker_injury",
     "permit_delay", "design_change"}

\* processConstructionEvent's effect on the project object
EventOnProject(project, eventType, randomMaterial) ==
    CASE eventType = "weather_delay" -> [project EXCEPT !.isDelayed = TRUE]
      [] eventType = "material_delay" ->
            [project EXCEPT
                !.deliveryDate[randomMaterial] =
                    IF @ # UNDEFINED_DATE THEN @ + MATERIAL_DELAY_DAYS ELSE @,
                !.isDelayed = TRUE]
      [] eventType = "worker_injury" ->
            [project EXCEPT !.workers = Max(1, @ - 1)]
      [] eventType = "equipment_breakdown" ->
            [project EXCEPT !.dailyCost = (@ * 11) \div 10]
      [] OTHER -> [project EXCEPT !.isDelayed = TRUE]

\* processConstructionEvent(project, eventType).  The project object is the one
\* updateConstruction holds: still in the map, or already moved to the
\* completed list by completeProject (then it is the last one there).
processConstructionEvent(S, projectId, eventType, randomMaterial) ==
    LET S1 == IF eventType = "weather_delay"
              THEN [S EXCEPT !.weatherConditions =
                                Max(MIN_EVENT_WEATHER, @ - WEATHER_EVENT_DROP)]
              ELSE S
    IN  IF projectId \in DOMAIN S1.projects
        THEN [S1 EXCEPT !.projects[projectId] =
                            EventOnProject(@, eventType, randomMaterial)]
        ELSE [S1 EXCEPT !.completedProjects[Len(S1.completedProjects)] =
                            EventOnProject(@, eventType, randomMaterial)]

\* processRandomEvents: Math.random() < deltaTime * 0.001.  The chance is
\* kept per mille; a draw below it exists iff it is positive, a draw at or
\* above it exists iff it is below 1000.
EventChance(deltaTime) == deltaTime * SECONDS_PER_DT
EventMayFire(deltaTime) == EventChance(deltaTime) > 0
EventMaySkip(deltaTime) == EventChance(deltaTime) < 1000

processRandomEvents(S, projectId, rnd) ==
    IF rnd.fires
    THEN processConstructionEvent(S, projectId, rnd.event, rnd.material)
    ELSE S

\* progressRate * deltaTime / (24 * 60 * 60)
ProgressIncrement(progressRate, deltaTime) ==
    (progressRate * deltaTime) \div (RATE_SCALE * DT_PER_DAY)

\* A variant that does not cap the progress at 1.0
AdvanceProgress_Unclamped(actualProgress, progressIncrement) ==
    actualProgress + progressIncrement

\* project.actualProgress += progressIncrement, then Math.min(1, ...)
AdvanceProgress(actualProgress, progressIncrement) ==
    Min(PROGRESS_ONE, actualProgress + progressIncrement)

\* ConstructionSystem.updateConstruction(building, deltaTime); b is the
\* Building object passed, rnd the random draws of the call
updateConstruction(S, b, deltaTime, rnd) ==
    LET key == S.buildings[b].id
    IN  IF key \notin DOMAIN S.projects THEN S
        ELSE
        LET project == S.projects[key]
            currentPhase == PhaseAt(project.currentPhase)
        IN  IF ~checkMaterialAvailability(project, currentPhase, S.now)
            THEN [S EXCEPT !.projects[key].isDelayed = TRUE,
                           !.buildings[b].constructionProgress = project.actualProgress]
            ELSE
            LET progressRate == calculateProgressRate(S, project)
                progressIncrement == ProgressIncrement(progressRate, deltaTime)
                progress == AdvanceProgress(project.actualProgress, progressIncrement)
                advanced ==
                    [S EXCEPT
                        !.projects[key].actualProgress = progress,
                        !.buildings[b].constructionProgress = progress,
                        !.projects[key].totalCostPaid =
                            @ + (project.dailyCost * deltaTime) \div DT_PER_DAY]
                phased ==
                    IF progress >= currentPhase.endProgress
                       /\ ~project.phaseCompleted[project.currentPhase]
                    THEN completePhase(advanced, key, project.currentPhase, rnd.delays)
                    ELSE advanced
                finished ==
                    IF progress >= PROGRESS_ONE
                    THEN completeProject(phased, key, b)
                    ELSE phased
            IN  processRandomEvents(finished, key, rnd)

\* generateConstructionReport: delayedProjects, the number of the active
\* projects with isDelayed
delayedProjects(S) == Cardinality({id \in DOMAIN S.projects : S.projects[id].isDelayed})

---------------------------------------------------------------------------
(* The state and its initial value *)

EmptyMap == [x \in {} |-> 0]

\* The engine's state and the Building objects, as one record
St ==
    [now |-> now, projects |-> projects, completedProjects |-> completedProjects,
     workers |-> workers, weatherConditions |-> weatherConditions,
     economicConditions |-> economicConditions, buildings |-> buildings]

Install(S) ==
    /\ projects' = S.projects
    /\ completedProjects' = S.completedProjects
    /\ workers' = S.workers
    /\ weatherConditions' = S.weatherConditions
    /\ economicConditions' = S.economicConditions
    /\ buildings' = S.buildings

\* generateInitialWorkers / hireWorkers: a new worker
NewWorker(id, specialization, efficiency) ==
    [id |-> id, specialization |-> specialization, efficiency |-> efficiency,
     availability |-> TRUE, assignedProjectId |-> NoProject]

\* The constructor: no projects, the initial workers (generateInitialWorkers
\* draws their number and specializations at random; here each draw is
\* 'general', other pools come about by hireWorkers and fireWorker), neutral
\* conditions.
EngineInit ==
    /\ now = 0
    /\ projects = EmptyMap
    /\ completedProjects = <<>>
    /\ \E effs \in [1 .. InitialWorkerCount -> Efficiencies] :
            workers = [i \in 1 .. InitialWorkerCount |->
                          NewWorker(WorkerId(0, i - 1), "general", effs[i])]
    /\ weatherConditions = PERCENT
    /\ economicConditions = PERCENT
    /\ nextProjectSeq = 0
    /\ updateCalls = 0
    /\ deliveries = 0
    /\ poolCalls = 0
    /\ simBuildings = <<>>
    /\ ret = Void

\* The Building objects are the caller's: under construction at progress 0,
\* or operational at full progress
NewBuilding(b, status) ==
    [id |-> BuildingId(b), status |-> status,
     constructionProgress |-> IF status = "operational" THEN PROGRESS_ONE ELSE 0]

BuildingsInit == buildings = [b \in BuildingObjs |-> NewBuilding(b, "constructing")]

---------------------------------------------------------------------------
(* Operations of ConstructionSystem *)

\* Date.now() advances
Tick ==
    /\ \E d \in TickSteps : now' = now + d
    /\ ret' = Void
    /\ UNCHANGED <<pathVars, clockVars, econVars, terrainVars, syncVars, storeVars>>
    /\ UNCHANGED <<projects, completedProjects, workers, weatherConditions,
                   economicConditions, nextProjectSeq, updateCalls, poolCalls, deliveries, buildings,
                   simBuildings>>

DelayChoices(phaseIndex) == [PhaseAt(phaseIndex).requiredMaterials -> DeliveryDelays]

\* startConstruction(building, blueprint, position, rotation)
startConstruction(S, projectId, b, blueprint, quality, delays) ==
    LET totalCostEstimated == estimateTotalCost(blueprint)
        estimatedDuration ==
            estimateConstructionTime(blueprint, S.weatherConditions,
                                     S.economicConditions)
        project ==
            [id |-> projectId,
             buildingId |-> S.buildings[b].id,
             blueprint |-> blueprint,
             actualProgress |-> 0,
             workers |-> 0,
             maxWorkers |-> calculateOptimalWorkerCount(blueprint),
             dailyCost |-> totalCostEstimated \div estimatedDuration,
             totalCostPaid |-> 0,
             totalCostEstimated |-> totalCostEstimated,
             materialQuality |-> quality,
             delivered |-> [m \in MaterialTypes |-> 0],
             deliveryDate |-> [m \in MaterialTypes |-> UNDEFINED_DATE],
             phaseCompleted |-> [i \in 0 .. NumPhases - 1 |-> FALSE],
             currentPhase |-> 0,
             isDelayed |-> FALSE]
        created ==
            [S EXCEPT !.projects =
                [k \in DOMAIN S.projects \cup {projectId} |->
                    IF k = projectId THEN project ELSE S.projects[k]]]
    IN  orderMaterials(assignWorkers(created, projectId), projectId, delays, S.now)

StartConstruction(b, blueprint, quality, delays) ==
    /\ LET projectId == ProjectId(nextProjectSeq + 1)
       IN  /\ Install(startConstruction(St, projectId, b, blueprint, quality, delays))
           /\ ret' = ReturnedId
    /\ nextProjectSeq' = nextProjectSeq + 1
    /\ UNCHANGED <<pathVars, clockVars, econVars, terrainVars, syncVars, storeVars>>
    /\ UNCHANGED <<now, updateCalls, poolCalls, deliveries, simBuildings>>

\* The random draws one updateConstruction call can make in state S: whether
\* an event fires, which one, which material a material_delay picks, and the
\* delivery delays of the materials orderMaterials orders when the call
\* completes a phase.  Draws the call does not look at are not enumerated.
RndChoices(S, b, deltaTime) ==
    LET key == S.buildings[b].id
        found == key \in DOMAIN S.projects
        project == S.projects[key]
        available ==
            found /\ checkMaterialAvailability(project, PhaseAt(project.currentPhase), S.now)
        progress ==
            AdvanceProgress(project.actualProgress,
                            ProgressIncrement(calculateProgressRate(S, project), deltaTime))
        orders ==
            /\ available
            /\ progress >= PhaseAt(project.currentPhase).endProgress
            /\ ~project.phaseCompleted[project.currentPhase]
            /\ project.currentPhase < NumPhases - 1
        delayDraws ==
            IF orders THEN DelayChoices(project.currentPhase + 1)
            ELSE {[m \in {} |-> 0]}
        none == [fires |-> FALSE, event |-> "none", material |-> "concrete"]
        eventDraws ==
            IF ~available THEN {none}
            ELSE (IF EventMaySkip(deltaTime) THEN {none} ELSE {})
                 \cup (IF EventMayFire(deltaTime)
                       THEN {[fires |-> TRUE, event |-> e, material |-> "concrete"] :
                                e \in EventTypes \ {"material_delay"}}
                            \cup {[fires |-> TRUE, event |-> "material_delay",
                                   material |-> m] : m \in MaterialTypes}
                       ELSE {})
    IN  {[fires |-> d.fires, event |-> d.event, material |-> d.material,
          delays |-> ds] : d \in eventDraws, ds \in delayDraws}

UpdateConstruction(b, deltaTime) ==
    /\ \E rnd \in RndChoices(St, b, deltaTime) :
            Install(updateConstruction(St, b, deltaTime, rnd))
    /\ updateCalls' = IF buildings[b].id \in DOMAIN projects
                      THEN updateCalls + 1 ELSE updateCalls
    /\ ret' = Void
    /\ UNCHANGED <<pathVars, clockVars, econVars, terrainVars, syncVars, storeVars>>
    /\ UNCHANGED <<now, nextProjectSeq, deliveries, poolCalls, simBuildings>>

\* cancelProject's cancellationPenalty: 20% of what was paid
cancellationPenalty(project) == (project.totalCostPaid * 20) \div PERCENT

\* A variant that does not release the workers
cancelProject_WorkersKept(S, projectId) ==
    IF projectId \notin DOMAIN S.projects THEN S
    ELSE [S EXCEPT !.projects = RemoveKey(S.projects, projectId)]

\* cancelProject(projectId)
cancelProject(S, projectId) ==
    IF projectId \notin DOMAIN S.projects THEN S
    ELSE [S EXCEPT
            !.workers =
                [i \in 1 .. Len(S.workers) |->
                    IF S.workers[i].assignedProjectId = projectId
                    THEN [S.workers[i] EXCEPT !.availability = TRUE,
                                              !.assignedProjectId = NoProject]
                    ELSE S.workers[i]],
            !.projects = RemoveKey(S.projects, projectId)]

CancelProject(projectId) ==
    /\ Install(cancelProject(St, projectId))
    /\ ret' = Bool(projectId \in DOMAIN projects)
    /\ UNCHANGED <<pathVars, clockVars, econVars, terrainVars, syncVars, storeVars>>
    /\ UNCHANGED <<now, nextProjectSeq, updateCalls, poolCalls, deliveries, simBuildings>>

\* hireWorkers(count, specialization); effs are the random skill draws
HireWorkers(count, specialization, effs) ==
    /\ workers' = workers \o
            [i \in 1 .. count |->
                NewWorker(WorkerId(now, Len(workers) + i - 1), specialization, effs[i])]
    /\ poolCalls' = IF count > 0 THEN poolCalls + 1 ELSE poolCalls
    /\ ret' = ReturnedNumber
    /\ UNCHANGED <<pathVars, clockVars, econVars, terrainVars, syncVars, storeVars>>
    /\ UNCHANGED <<now, projects, completedProjects, weatherConditions,
                   economicConditions, nextProjectSeq, updateCalls, deliveries, buildings,
                   simBuildings>>

\* fireWorker(workerId)
fireWorker(S, workerId) ==
    LET matches == {i \in 1 .. Len(S.workers) : S.workers[i].id = workerId}
    IN  IF matches = {} THEN S
        ELSE
        LET index == CHOOSE i \in matches : \A j \in matches : i <= j
            worker == S.workers[index]
            released ==
                IF worker.assignedProjectId # NoProject
                   /\ worker.assignedProjectId \in DOMAIN S.projects
                THEN [S EXCEPT !.projects[worker.assignedProjectId].workers =
                                    Max(0, @ - 1)]
                ELSE S
        IN  [released EXCEPT !.workers =
                [i \in 1 .. Len(S.workers) - 1 |->
                    IF i < index THEN S.workers[i] ELSE S.workers[i + 1]]]

FireWorker(workerId) ==
    /\ Install(fireWorker(St, workerId))
    /\ poolCalls' = IF \E i \in 1 .. Len(workers) : workers[i].id = workerId
                    THEN poolCalls + 1 ELSE poolCalls
    /\ ret' = Bool(\E i \in 1 .. Len(workers) : workers[i].id = workerId)
    /\ UNCHANGED <<pathVars, clockVars, econVars, terrainVars, syncVars, storeVars>>
    /\ UNCHANGED <<now, nextProjectSeq, updateCalls, deliveries, simBuildings>>

---------------------------------------------------------------------------
(* The callers of the engine *)

\* A delivery recorded on the project object handed out by getProject /
\* getActiveProjects: the engine reads material.delivered and never writes it
\* after startConstruction.  Only an ordered, not fully delivered material
\* receives a shipment; the quantity never exceeds what is required.
DeliverMaterial(projectId, m, percent) ==
    /\ deliveries' = deliveries + 1
    /\ projectId \in DOMAIN projects
    /\ LET required == calculateMaterialRequirements(projects[projectId].blueprint)[m]
           delivered == projects[projectId].delivered[m]
       IN  /\ projects[projectId].deliveryDate[m] # UNDEFINED_DATE
           /\ delivered < required
           /\ projects' = [projects EXCEPT ![projectId].delivered[m] =
                              Min(required, delivered + (required * percent) \div PERCENT)]
    /\ ret' = Void
    /\ UNCHANGED <<pathVars, clockVars, econVars, terrainVars, syncVars, storeVars>>
    /\ UNCHANGED <<now, completedProjects, workers, weatherConditions,
                   economicConditions, nextProjectSeq, updateCalls, poolCalls, buildings,
                   simBuildings>>

\* updateConstruction looks the project up under building.id, and
\* startConstruction files it under the project id it returns.  The caller
\* that wants its building's project updated hands the building over under
\* that id.
AdoptProjectId(b, projectId) ==
    /\ projectId \in DOMAIN projects
    /\ projects[projectId].buildingId = buildings[b].id
    /\ buildings' = [buildings EXCEPT ![b].id = projectId]
    /\ ret' = Void
    /\ UNCHANGED <<pathVars, clockVars, econVars, terrainVars, syncVars, storeVars>>
    /\ UNCHANGED <<now, projects, completedProjects, workers, weatherConditions,
                   economicConditions, nextProjectSeq, updateCalls, poolCalls, deliveries, simBuildings>>

---------------------------------------------------------------------------
(* Operations of CitySimulation.  Times are in tenths of a second:
   performance.now(), the simulated time and the intervals.  An agent is
   kept as far as the economy and removeBuilding read it; where it stands
   and walks is not kept, and of the terrain only when updateTerrain ran:
   its cells are with the operations of TerrainSystem. *)

TIME_SCALE == 10
PATHFINDING_INTERVAL == 10
TERRAIN_INTERVAL == 50
DEFAULT_INTERVAL == 10
SCHEDULE_BACK == 10
MIN_GAME_SPEED == 0
MAX_GAME_SPEED == 10
\* config.economicUpdateInterval and config.agentUpdateInterval
EconomicUpdateInterval == 20
AgentUpdateInterval == 5

GatedSystems == <<"terrain", "pathfinding", "agents", "economics">>
GatedSystemSet == {GatedSystems[i] : i \in 1 .. Len(GatedSystems)}

\* The constructor's state
InitialSimState ==
    [isRunning |-> FALSE, isPaused |-> FALSE, gameSpeed |-> 1,
     totalGameTime |-> 0, lastUpdateTime |-> 0, frameCount |-> 0]

\* updateIntervals has no '<system>_last' entry at first, which
\* shouldUpdateSystem reads as 0
InitialLastRun == [s \in GatedSystemSet |-> 0]

\* No update call was made and no subsystem ever ran.  returnedAtOnce: the
\* last update call returned at its first line; tick: the subsystems the last
\* update call ran; lastRan: when each subsystem last ran, if ever; awaited:
\* an operational building was added, a building removed or a road added
\* since the last update call that did not return at once
NothingRan ==
    [returnedAtOnce |-> FALSE, tick |-> <<>>, lastRan |-> [s \in GatedSystemSet |-> <<>>],
     awaited |-> FALSE]

\* schedulePathfindingUpdate, which leaves the time of the last run alone
schedulePathfindingUpdate_Nothing(last, totalGameTime) == last

\* schedulePathfindingUpdate
schedulePathfindingUpdate(last, totalGameTime) ==
    [last EXCEPT !["pathfinding"] = totalGameTime - SCHEDULE_BACK]

InSim(b) == \E i \in 1 .. Len(simBuildings) : simBuildings[i] = b

\* addBuilding(building)
AddBuilding(b) ==
    /\ ~InSim(b)
    /\ simBuildings' = Append(simBuildings, b)
    /\ updateIntervals' = IF buildings[b].status = "operational"
                          THEN schedulePathfindingUpdate(updateIntervals,
                                                         simState.totalGameTime)
                          ELSE updateIntervals
    /\ topologyChanged' = TRUE
    /\ ran' = [ran EXCEPT !.awaited = @ \/ buildings[b].status = "operational"]
    /\ ret' = Void
    /\ UNCHANGED <<pathVars, econVars, terrainVars, syncVars, storeVars, perfNow, simState, simRoads, agents>>
    /\ UNCHANGED <<now, projects, completedProjects, workers, weatherConditions,
                   economicConditions, nextProjectSeq, updateCalls, poolCalls, deliveries, buildings>>

\* removeBuilding(buildingId)
removeBuilding(list, bs, buildingId) ==
    LET matches == {i \in 1 .. Len(list) : bs[list[i]].id = buildingId}
    IN  IF matches = {} THEN list
        ELSE LET index == CHOOSE i \in matches : \A j \in matches : i <= j
             IN  [i \in 1 .. Len(list) - 1 |->
                     IF i < index THEN list[i] ELSE list[i + 1]]

RemoveBuilding(buildingId) ==
    /\ simBuildings' = removeBuilding(simBuildings, buildings, buildingId)
    /\ IF \E i \in 1 .. Len(simBuildings) : buildings[simBuildings[i]].id = buildingId
       THEN /\ updateIntervals' = schedulePathfindingUpdate(updateIntervals,
                                                            simState.totalGameTime)
            /\ agents' = SelectSeq(agents, LAMBDA a : /\ a.homeId # buildingId
                                                      /\ a.workplaceId # buildingId)
            /\ topologyChanged' = TRUE
            /\ ran' = [ran EXCEPT !.awaited = TRUE]
       ELSE UNCHANGED <<updateIntervals, agents, topologyChanged, ran>>
    /\ ret' = Void
    /\ UNCHANGED <<pathVars, econVars, terrainVars, syncVars, storeVars, perfNow, simState, simRoads>>
    /\ UNCHANGED <<now, projects, completedProjects, workers, weatherConditions,
                   economicConditions, nextProjectSeq, updateCalls, poolCalls, deliveries, buildings>>

\* The body of CitySimulation.updateConstruction's forEach for one building:
\* the engine's update, then the flip to operational at full progress.
\* The set of states it can end in, over the random draws.
SimUpdateOne(S, b, deltaTime) ==
    {LET after == updateConstruction(S, b, deltaTime, rnd)
     IN  IF after.buildings[b].constructionProgress >= PROGRESS_ONE
         THEN [after EXCEPT !.buildings[b].status = "operational",
                            !.buildings[b].constructionProgress = PROGRESS_ONE]
         ELSE after
     : rnd \in RndChoices(S, b, deltaTime)}

\* CitySimulation.updateConstruction(deltaTime): the buildings under
\* construction, in list order
RECURSIVE SimUpdateAll(_, _, _)
SimUpdateAll(states, list, deltaTime) ==
    IF list = <<>> THEN states
    ELSE SimUpdateAll(UNION {SimUpdateOne(S, Head(list), deltaTime) : S \in states},
                      Tail(list), deltaTime)

ConstructingBuildings ==
    SelectSeq(simBuildings, LAMBDA b : buildings[b].status = "constructing")

\* a building of the list is at full progress: updateConstruction made it
\* operational and called schedulePathfindingUpdate
SomeCompleted(S, list) ==
    \E i \in 1 .. Len(list) : S.buildings[list[i]].constructionProgress >= PROGRESS_ONE

SimUpdateConstruction(deltaTime) ==
    /\ ConstructingBuildings # <<>>
    /\ \E S \in SimUpdateAll({St}, ConstructingBuildings, deltaTime) :
          /\ Install(S)
          /\ IF SomeCompleted(S, ConstructingBuildings)
             THEN /\ updateIntervals' = schedulePathfindingUpdate(updateIntervals,
                                                                  simState.totalGameTime)
                  /\ topologyChanged' = TRUE
             ELSE UNCHANGED <<updateIntervals, topologyChanged>>
    /\ updateCalls' = updateCalls + 1
    /\ ret' = Void
    /\ UNCHANGED <<pathVars, econVars, terrainVars, syncVars, storeVars, perfNow, simState, simRoads, agents, ran>>
    /\ UNCHANGED <<now, nextProjectSeq, deliveries, poolCalls, simBuildings>>

---------------------------------------------------------------------------
(* PathfindingSystem.  Lengths are in half world units, so that the cell
   centres and the walking height 0.5 are integers.  The world is
   GridWidth cells of 2 * HalfCell across. *)

GridWidth == 4
GridHeight == GridWidth
HalfCell == 10
cellSize == 2 * HalfCell
worldSize == GridWidth * cellSize

\* generateDirectPath: one segment per 5 world units, two at least, at height 0.5
SEGMENT_LENGTH == 10
MIN_SEGMENTS == 2
PATH_HEIGHT == 1
\* Costs are in 1/10000 of a cell side; Math.sqrt(2) to four places
COST_ONE == 10000
SQRT2 == 14142
ROAD_BONUS_DIVISOR == 2
Infinity == 100 * COST_ONE

Cells == (0 .. GridWidth - 1) \X (0 .. GridHeight - 1)
NoCell == <<-1, -1>>

Vector3(x, y, z) == [x |-> x, y |-> y, z |-> z]

\* initializeGrid: the position of the node of a cell
nodePosition(c) ==
    LET halfSize == worldSize \div 2
    IN  Vector3(-halfSize + (2 * c[1] + 1) * HalfCell, 0,
                -halfSize + (2 * c[2] + 1) * HalfCell)

\* worldToGrid of the point (p.x / den, p.z / den): the cell it lies in,
\* clamped to the grid
worldToGrid(p, den) ==
    LET halfWidth == (GridWidth * cellSize) \div 2
        halfHeight == (GridHeight * cellSize) \div 2
        x == (p.x + halfWidth * den) \div (cellSize * den)
        z == (p.z + halfHeight * den) \div (cellSize * den)
    IN  <<Max(0, Min(GridWidth - 1, x)), Max(0, Min(GridHeight - 1, z))>>

isValidGridPosition(x, y) == x >= 0 /\ x < GridWidth /\ y >= 0 /\ y < GridHeight

\* node.isWalkable, as updateObstacles leaves it
isWalkable(obs, c) == c \notin obs

Abs(n) == IF n < 0 THEN -n ELSE n

\* the square of a.distanceTo(b)
distanceSquared(a, b) ==
    (a.x - b.x) * (a.x - b.x) + (a.y - b.y) * (a.y - b.y) + (a.z - b.z) * (a.z - b.z)

\* |dx| + |dy| + |dz|, which is at least the distance
taxicab(a, b) == Abs(a.x - b.x) + Abs(a.y - b.y) + Abs(a.z - b.z)

\* Math.floor(a.distanceTo(b) / unit)
FloorDistanceOver(a, b, unit) ==
    LET d2 == distanceSquared(a, b)
    IN  CHOOSE k \in 0 .. taxicab(a, b) :
            k * k * unit * unit <= d2 /\ (k + 1) * (k + 1) * unit * unit > d2

\* Math.ceil(a.distanceTo(b) / (unit / 2))
CeilDistanceOverHalf(a, b, unit) ==
    LET d2 == distanceSquared(a, b)
    IN  CHOOSE k \in 0 .. 2 * taxicab(a, b) + 1 :
            /\ k * k * unit * unit >= 4 * d2
            /\ k = 0 \/ (k - 1) * (k - 1) * unit * unit < 4 * d2

\* getNeighbors: the cells around a cell, in the order of the offsets
NeighborOffsets ==
    << <<-1, 0>>, <<1, 0>>, <<0, -1>>, <<0, 1>>,
       <<-1, -1>>, <<1, -1>>, <<-1, 1>>, <<1, 1>> >>

getNeighbors(c) ==
    LET all == [i \in 1 .. Len(NeighborOffsets) |->
                   <<c[1] + NeighborOffsets[i][1], c[2] + NeighborOffsets[i][2]>>]
    IN  SelectSeq(all, LAMBDA n : isValidGridPosition(n[1], n[2]))

\* calculateHeuristic: the octile distance
calculateHeuristic(a, b) ==
    LET dx == Abs(a[1] - b[1])
        dz == Abs(a[2] - b[2])
    IN  Max(dx, dz) * COST_ONE + (SQRT2 - COST_ONE) * Min(dx, dz)

\* calculateDistance between neighbouring cells: half on a road cell
calculateDistance(rds, a, b) ==
    LET straight == a[1] = b[1] \/ a[2] = b[2]
        length == IF a = b THEN 0 ELSE IF straight THEN COST_ONE ELSE SQRT2
    IN  IF b \in rds THEN length \div ROAD_BONUS_DIVISOR ELSE length

\* reconstructPath: the cells from the start to the end node, by the parents
RECURSIVE reconstructPath(_, _)
reconstructPath(parent, c) ==
    IF c = NoCell THEN <<>>
    ELSE Append(reconstructPath(parent, parent[c]), c)

\* hasLineOfSight between two node positions: samples every half cell
hasLineOfSight(obs, start, end) ==
    LET steps == CeilDistanceOverHalf(start, end, cellSize)
    IN  /\ steps > 0
        /\ \A i \in 0 .. steps :
              LET point == Vector3(start.x * steps + (end.x - start.x) * i, 0,
                                   start.z * steps + (end.z - start.z) * i)
                  gridPos == worldToGrid(point, steps)
              IN  /\ isValidGridPosition(gridPos[1], gridPos[2])
                  /\ gridPos \notin obs

\* smoothPath: the farthest index reachable from currentIndex, trying
\* currentIndex + 2 onwards and stopping at the first one out of sight
RECURSIVE farthestVisible(_, _, _, _)
farthestVisible(obs, path, currentIndex, i) ==
    IF i <= Len(path) /\ hasLineOfSight(obs, path[currentIndex], path[i])
    THEN farthestVisible(obs, path, currentIndex, i + 1)
    ELSE i - 1

RECURSIVE smoothFrom(_, _, _)
smoothFrom(obs, path, currentIndex) ==
    IF currentIndex >= Len(path) THEN <<>>
    ELSE LET farthestIndex == farthestVisible(obs, path, currentIndex, currentIndex + 2)
         IN  <<path[farthestIndex]>> \o smoothFrom(obs, path, farthestIndex)

\* smoothPath, without the first waypoint in the result
smoothPath_WithoutFirst(obs, path) ==
    IF Len(path) <= 2 THEN path
    ELSE smoothFrom(obs, path, 1)

\* smoothPath
smoothPath(obs, path) ==
    IF Len(path) <= 2 THEN path
    ELSE <<path[1]>> \o smoothFrom(obs, path, 1)

\* A path: the points (x / den, y / den, z / den)
Path(den, points) == [den |-> den, points |-> points]

\* generateDirectPath, without the minimum of two segments
generateDirectPath_NoMinimum(start, end) ==
    LET segments == Max(1, FloorDistanceOver(start, end, SEGMENT_LENGTH))
    IN  Path(segments,
             [k \in 1 .. segments + 1 |->
                 Vector3(start.x * segments + (end.x - start.x) * (k - 1),
                         PATH_HEIGHT * segments,
                         start.z * segments + (end.z - start.z) * (k - 1))])

\* generateDirectPath
generateDirectPath(start, end) ==
    LET segments == Max(MIN_SEGMENTS,
                        FloorDistanceOver(start, end, SEGMENT_LENGTH))
    IN  Path(segments,
             [k \in 1 .. segments + 1 |->
                 Vector3(start.x * segments + (end.x - start.x) * (k - 1),
                         PATH_HEIGHT * segments,
                         start.z * segments + (end.z - start.z) * (k - 1))])

\* The locals of findPath and of aStarSearch.  gCost, hCost and parent are
\* the fields of the nodes; fCost is gCost + hCost wherever it is read.
SearchState(status, startPos, endPos, startNode, endNode) ==
    [status |-> status, startPos |-> startPos, endPos |-> endPos,
     startNode |-> startNode, endNode |-> endNode,
     openSet |-> IF status = "searching" THEN <<startNode>> ELSE <<>>,
     closedSet |-> {},
     gCost |-> [c \in Cells |->
                   IF status = "searching" /\ c = startNode THEN 0 ELSE Infinity],
     hCost |-> [c \in Cells |->
                   IF status = "searching" /\ c = startNode
                   THEN calculateHeuristic(startNode, endNode) ELSE 0],
     parent |-> [c \in Cells |-> NoCell],
     iterations |-> 0]

NoSearch == SearchState("idle", Vector3(0, 0, 0), Vector3(0, 0, 0), NoCell, NoCell)

\* What findPath returned: threw is a read of a node outside grid.nodes,
\* searched is whether aStarSearch was called
PathResult(returned, threw, searched, startPos, endPos, path) ==
    [returned |-> returned, threw |-> threw, searched |-> searched,
     startPos |-> startPos, endPos |-> endPos, path |-> path]

NoPathResult ==
    PathResult(FALSE, FALSE, FALSE, Vector3(0, 0, 0), Vector3(0, 0, 0), Path(1, <<>>))

fCost(s, c) == s.gCost[c] + s.hCost[c]

\* aStarSearch: the index of the open node with the lowest fCost, the lower
\* hCost among equals, the first of those
lowestIndex(s) ==
    LET better(i, j) ==
            \/ fCost(s, s.openSet[i]) < fCost(s, s.openSet[j])
            \/ /\ fCost(s, s.openSet[i]) = fCost(s, s.openSet[j])
               /\ s.hCost[s.openSet[i]] < s.hCost[s.openSet[j]]
    IN  CHOOSE i \in 1 .. Len(s.openSet) :
            /\ \A j \in 1 .. Len(s.openSet) : ~better(j, i)
            /\ \A j \in 1 .. i - 1 : better(i, j)

\* aStarSearch: the body of the loop over the neighbours, without the test
\* of the closed set
considerNeighbor_ClosedAgain(obs, rds, s, current, neighbor) ==
    IF ~isWalkable(obs, neighbor) THEN s
    ELSE LET tentativeGCost == s.gCost[current] + calculateDistance(rds, current, neighbor)
             inOpen == \E i \in 1 .. Len(s.openSet) : s.openSet[i] = neighbor
         IN  IF inOpen /\ tentativeGCost >= s.gCost[neighbor] THEN s
             ELSE [s EXCEPT !.openSet = IF inOpen THEN @ ELSE Append(@, neighbor),
                            !.parent[neighbor] = current,
                            !.gCost[neighbor] = tentativeGCost,
                            !.hCost[neighbor] = calculateHeuristic(neighbor, s.endNode)]

\* aStarSearch: the body of the loop over the neighbours
considerNeighbor(obs, rds, s, current, neighbor) ==
    IF ~isWalkable(obs, neighbor) \/ neighbor \in s.closedSet THEN s
    ELSE LET tentativeGCost == s.gCost[current] + calculateDistance(rds, current, neighbor)
             inOpen == \E i \in 1 .. Len(s.openSet) : s.openSet[i] = neighbor
         IN  IF inOpen /\ tentativeGCost >= s.gCost[neighbor] THEN s
             ELSE [s EXCEPT !.openSet = IF inOpen THEN @ ELSE Append(@, neighbor),
                            !.parent[neighbor] = current,
                            !.gCost[neighbor] = tentativeGCost,
                            !.hCost[neighbor] = calculateHeuristic(neighbor, s.endNode)]

RECURSIVE considerNeighbors(_, _, _, _, _)
considerNeighbors(obs, rds, s, current, neighbors) ==
    IF neighbors = <<>> THEN s
    ELSE considerNeighbors(obs, rds,
                           considerNeighbor(obs, rds, s, current, Head(neighbors)),
                           current, Tail(neighbors))

\* aStarSearch: the head of one pass of the loop: the lowest open node moves
\* from the open to the closed set
expandLowest(s) ==
    LET currentIndex == lowestIndex(s)
    IN  [s EXCEPT !.openSet = [i \in 1 .. Len(@) - 1 |->
                                  IF i < currentIndex THEN @[i] ELSE @[i + 1]],
                  !.closedSet = @ \cup {s.openSet[currentIndex]},
                  !.iterations = @ + 1]

\* findPath, after aStarSearch returned the cells of its path, without the
\* fallback for an empty path
finishFindPath_NoFallback(obs, s, cells) ==
    PathResult(TRUE, FALSE, TRUE, s.startPos, s.endPos,
               Path(1, smoothPath(obs, [i \in 1 .. Len(cells) |-> nodePosition(cells[i])])))

\* findPath, after aStarSearch returned the cells of its path
finishFindPath(obs, s, cells) ==
    PathResult(TRUE, FALSE, TRUE, s.startPos, s.endPos,
               IF Len(cells) = 0 THEN generateDirectPath(s.startPos, s.endPos)
               ELSE Path(1, smoothPath(obs, [i \in 1 .. Len(cells) |->
                                                nodePosition(cells[i])])))

\* findPath(startPos, endPos), up to the first pass of aStarSearch's loop
FindPath(startPos, endPos) ==
    /\ search.status # "searching"
    /\ LET startGrid == worldToGrid(startPos, 1)
           endGrid == worldToGrid(endPos, 1)
           direct == PathResult(TRUE, FALSE, FALSE, startPos, endPos,
                                generateDirectPath(startPos, endPos))
       IN  IF \/ ~isValidGridPosition(startGrid[1], startGrid[2])
              \/ ~isValidGridPosition(endGrid[1], endGrid[2])
           THEN /\ pathRet' = direct
                /\ search' = SearchState("done", startPos, endPos, NoCell, NoCell)
           ELSE IF startGrid \notin Cells \/ endGrid \notin Cells
           THEN /\ pathRet' = PathResult(FALSE, TRUE, FALSE, startPos, endPos, Path(1, <<>>))
                /\ search' = SearchState("done", startPos, endPos, NoCell, NoCell)
           ELSE IF ~isWalkable(obstacles, startGrid) \/ ~isWalkable(obstacles, endGrid)
           THEN /\ pathRet' = direct
                /\ search' = SearchState("done", startPos, endPos, startGrid, endGrid)
           ELSE /\ pathRet' = NoPathResult
                /\ search' = SearchState("searching", startPos, endPos, startGrid, endGrid)
    /\ UNCHANGED <<obstacles, roads>>
    /\ UNCHANGED <<constructionVars, ret, clockVars, econVars, terrainVars, syncVars, storeVars>>

\* One pass of aStarSearch's loop, or its end, and then the rest of findPath
AStarIterate ==
    /\ search.status = "searching"
    /\ IF search.openSet = <<>>
       THEN /\ pathRet' = finishFindPath(obstacles, search, <<>>)
            /\ search' = [search EXCEPT !.status = "done"]
       ELSE LET s == expandLowest(search)
                currentNode == search.openSet[lowestIndex(search)]
            IN  IF currentNode = search.endNode
                THEN /\ pathRet' = finishFindPath(obstacles, search,
                                                  reconstructPath(search.parent, search.endNode))
                     /\ search' = [s EXCEPT !.status = "done"]
                ELSE /\ search' = considerNeighbors(obstacles, roads, s, currentNode,
                                                    getNeighbors(currentNode))
                     /\ UNCHANGED pathRet
    /\ UNCHANGED <<obstacles, roads>>
    /\ UNCHANGED <<constructionVars, ret, clockVars, econVars, terrainVars, syncVars, storeVars>>

---------------------------------------------------------------------------
(* EconomicEngine: the businesses.  Money is in cents, fractions
   (accessibility, efficiency, risk, ...) in thousandths, deltaTime and
   daysSinceProfit in tenths; every product is rounded down.  Of the
   engine's state the business list is kept; the market conditions a
   business reads are computed from the buildings and agents of the same
   call. *)

CENTS == 100
FRACTION == 1000
ECON_DT_SCALE == 10
BASE_REVENUE == 1000
BASE_COSTS == 500
HOURS_PER_DAY == 24
RISK_DAYS == 30
DAYS_PER_MONTH == 30
NEARBY_DISTANCE == 40
DEFAULT_MAX_EMPLOYEES == 50
\* the store's rule for closing a business: more than 30 days without
\* profit and a bankruptcy risk above 0.8
BANKRUPT_DAYS == 30
BANKRUPT_RISK == 800

NoBuilding == <<>>

\* what updateEconomy returns: an EconomicReport
EconomicReport == "report"

\* The fields of the caller's Building objects the economy reads
BuildingFields(b) ==
    [zoneType |-> IF b = 1 THEN "commercial" ELSE "residential",
     wealthLevel |-> "low",
     capacity |-> 2,
     property_value |-> 50000,
     position |-> nodePosition(<<(b - 1) % GridWidth, 0>>)]

\* A Building as updateEconomy reads it
EconBuilding(b, status) ==
    [id |-> BuildingId(b), status |-> status,
     zoneType |-> BuildingFields(b).zoneType,
     wealthLevel |-> BuildingFields(b).wealthLevel,
     capacity |-> BuildingFields(b).capacity,
     property_value |-> BuildingFields(b).property_value,
     position |-> BuildingFields(b).position]

\* spawnCitizen: a citizen of a home, as far as the economy reads it
Citizen(homeId, workplaceId, employment, education, position) ==
    [type |-> "citizen", homeId |-> homeId, workplaceId |-> workplaceId,
     employment |-> employment, education |-> education, position |-> position]

\* economyStore.createBusiness: a new business of a building
createBusiness(businessId, buildingId, businessType) ==
    [id |-> businessId, type |-> businessType, buildingId |-> buildingId,
     accessibility |-> 1000, footTraffic |-> 500, prestige |-> 500,
     revenue |-> 0, operatingCosts |-> 1000 * CENTS, profit |-> 0,
     rent |-> 2000 * CENTS, employees |-> 0, maxEmployees |-> 10,
     wagesPerEmployee |-> 30000 * CENTS,
     efficiency |-> 1000, customerSatisfaction |-> 800,
     isOperational |-> TRUE, daysSinceProfit |-> 0, bankruptcyRisk |-> 100]

Clamp(lo, hi, x) == Max(lo, Min(hi, x))

\* buildings.find(b => b.id === id): the index of the first, 0 if none
findBuilding(bldgs, id) ==
    LET matches == {i \in 1 .. Len(bldgs) : bldgs[i].id = id}
    IN  IF matches = {} THEN 0 ELSE CHOOSE i \in matches : \A j \in matches : i <= j

\* updateMarketConditions: the demand of a zone and wealth level, in
\* thousandths: population * 0.01 * (1 - unemploymentRate * 0.5) * 0.6 for
\* low wealth, times the zone's factor
demandByZone(agts, zoneType) ==
    LET residents == {i \in 1 .. Len(agts) : agts[i].type = "citizen"}
        population == Cardinality(residents)
        employedCitizens == Cardinality({i \in residents : agts[i].employment = "employed"})
        base == IF population = 0 THEN 0
                ELSE (((population * 10 * (2 * population - (population - employedCitizens)))
                         \div (2 * population)) * 6) \div 10
    IN  IF zoneType = "residential" THEN (base * 12) \div 10
        ELSE IF zoneType = "commercial"
        THEN (base * (800 + (400 * employedCitizens) \div Max(1, population))) \div FRACTION
        ELSE IF zoneType = "industrial" THEN (base * 6) \div 10
        ELSE (base * 7) \div 10

\* updateMarketConditions: the supply of a zone and wealth level: the
\* capacity of its operational buildings
RECURSIVE supplyByZone(_, _, _)
supplyByZone(bldgs, zoneType, wealthLevel) ==
    IF bldgs = <<>> THEN 0
    ELSE (IF /\ Head(bldgs).zoneType = zoneType
             /\ Head(bldgs).wealthLevel = wealthLevel
             /\ Head(bldgs).status = "operational"
          THEN Head(bldgs).capacity ELSE 0)
         + supplyByZone(Tail(bldgs), zoneType, wealthLevel)

\* typeMultipliers, in tenths; 1.0 for a type not listed
typeMultiplier(type) ==
    IF type = "retail_store" THEN 10
    ELSE IF type = "restaurant" THEN 13
    ELSE IF type = "manufacturing" THEN 20
    ELSE 10

\* supplyCosts, in tenths; 0.3 for a type not listed
supplyMultiplier(type) ==
    IF type = "retail_store" THEN 4
    ELSE IF type = "restaurant" THEN 6
    ELSE IF type = "manufacturing" THEN 5
    ELSE 3

\* calculateBusinessRevenue, in cents per day
calculateBusinessRevenue(business, building, agts) ==
    LET location1 == (BASE_REVENUE * CENTS * (FRACTION + (business.accessibility * 3) \div 10))
                         \div FRACTION
        location2 == (location1 * (FRACTION + (business.footTraffic * 5) \div 10)) \div FRACTION
        location3 == (location2 * (FRACTION + (business.prestige * 2) \div 10)) \div FRACTION
        demand == demandByZone(agts, building.zoneType)
        \* demand || 1, then Math.max(0.1, Math.min(2, demand / 100))
        demandFactor == Clamp(FRACTION \div 10, 2 * FRACTION,
                              (IF demand = 0 THEN FRACTION ELSE demand) \div 100)
        market == (location3 * demandFactor) \div FRACTION
        nearbyResidents ==
            Cardinality({i \in 1 .. Len(agts) :
                            /\ agts[i].type = "citizen"
                            /\ agts[i].homeId # NoBuilding
                            /\ distanceSquared(building.position, agts[i].position)
                                   < NEARBY_DISTANCE * NEARBY_DISTANCE})
        customers == (market * (100 + nearbyResidents)) \div 100
    IN  (customers * typeMultiplier(business.type)) \div 10

\* calculateOperatingCosts, in cents per day
calculateOperatingCosts(business, building) ==
    BASE_COSTS * CENTS
    + (IF business.rent # 0 THEN business.rent
       ELSE (building.property_value * CENTS) \div FRACTION)
    + building.capacity * 2 * CENTS
    + (business.employees * business.wagesPerEmployee) \div DAYS_PER_MONTH
    + (business.revenue * supplyMultiplier(business.type)) \div 10

\* calculateAverageSkillLevel, in thousandths
calculateAverageSkillLevel(business, agts) ==
    LET employees == {i \in 1 .. Len(agts) :
                         /\ agts[i].workplaceId = business.buildingId
                         /\ agts[i].employment = "employed"}
        skillLevel(e) == IF e = "none" THEN 200 ELSE IF e = "primary" THEN 400
                         ELSE IF e = "secondary" THEN 600
                         ELSE IF e = "university" THEN 800 ELSE 1000
    IN  IF employees = {} THEN 300
        ELSE SumOver([i \in employees |-> skillLevel(agts[i].education)], employees)
                \div Cardinality(employees)

\* getSupplyDemandRatio, in thousandths
getSupplyDemandRatio(bldgs, agts, zoneType, wealthLevel) ==
    LET s == supplyByZone(bldgs, zoneType, wealthLevel)
        d == demandByZone(agts, zoneType)
        supply == IF s = 0 THEN FRACTION ELSE s * FRACTION
        demand == IF d = 0 THEN FRACTION ELSE d
    IN  (supply * FRACTION) \div Max(FRACTION, demand)

\* calculateBusinessEfficiency, in thousandths
calculateBusinessEfficiency(business, building, bldgs, agts) ==
    LET ratio == getSupplyDemandRatio(bldgs, agts, building.zoneType, building.wealthLevel)
    IN  Clamp(100, 1500,
              500 + (business.accessibility * 2) \div 10
                  + (business.prestige * 15) \div 100
                  + (calculateAverageSkillLevel(business, agts) * 3) \div 10
                  + (building.property_value * 2) \div FRACTION
                  + Clamp(-200, 200, ((FRACTION - ratio) * 2) \div 10))

\* calculateCustomerSatisfaction, in thousandths, for a business that can
\* have employees
calculateCustomerSatisfaction(business, building) ==
    Clamp(0, FRACTION,
          700 + (business.efficiency * 2) \div 10
              + (building.property_value * 2) \div FRACTION
              + (business.employees * 200) \div business.maxEmployees)

\* updateBusinessEmployment
updateBusinessEmployment(business, building, agts) ==
    LET currentEmployees ==
            Cardinality({i \in 1 .. Len(agts) :
                            /\ agts[i].workplaceId = business.buildingId
                            /\ agts[i].employment = "employed"})
        optimalEmployees == (business.maxEmployees * business.efficiency * 8)
                                \div (10 * FRACTION)
    IN  [business EXCEPT
            !.employees = currentEmployees,
            !.maxEmployees =
                IF currentEmployees < optimalEmployees /\ business.profit > 0
                THEN Min(@ + 1, IF building.capacity # 0 THEN building.capacity
                                ELSE DEFAULT_MAX_EMPLOYEES)
                ELSE @]

\* updateOperational with the days without profit never set back
updateOperational_NeverReset(business, building, bldgs, agts, deltaTime) ==
    LET revenue == calculateBusinessRevenue(business, building, agts)
        operatingCosts == calculateOperatingCosts(business, building)
        b1 == [business EXCEPT
                  !.revenue = (revenue * deltaTime * HOURS_PER_DAY) \div ECON_DT_SCALE,
                  !.operatingCosts = (operatingCosts * deltaTime * HOURS_PER_DAY)
                                        \div ECON_DT_SCALE]
        b2 == [b1 EXCEPT !.profit = b1.revenue - b1.operatingCosts]
        b3 == [b2 EXCEPT !.efficiency = calculateBusinessEfficiency(b2, building, bldgs, agts)]
        b4 == [b3 EXCEPT !.customerSatisfaction = calculateCustomerSatisfaction(b3, building)]
        b5 == [b4 EXCEPT !.daysSinceProfit = @ + deltaTime]
        b6 == [b5 EXCEPT !.bankruptcyRisk =
                            Min(FRACTION, (b5.daysSinceProfit * FRACTION)
                                              \div (RISK_DAYS * ECON_DT_SCALE))]
    IN  updateBusinessEmployment(b6, building, agts)

\* updateBusinesses: the body of the forEach for a business whose building
\* is operational
updateOperational(business, building, bldgs, agts, deltaTime) ==
    LET revenue == calculateBusinessRevenue(business, building, agts)
        operatingCosts == calculateOperatingCosts(business, building)
        b1 == [business EXCEPT
                  !.revenue = (revenue * deltaTime * HOURS_PER_DAY) \div ECON_DT_SCALE,
                  !.operatingCosts = (operatingCosts * deltaTime * HOURS_PER_DAY)
                                        \div ECON_DT_SCALE]
        b2 == [b1 EXCEPT !.profit = b1.revenue - b1.operatingCosts]
        b3 == [b2 EXCEPT !.efficiency = calculateBusinessEfficiency(b2, building, bldgs, agts)]
        b4 == [b3 EXCEPT !.customerSatisfaction = calculateCustomerSatisfaction(b3, building)]
        b5 == [b4 EXCEPT !.daysSinceProfit = IF b4.profit > 0 THEN 0 ELSE @ + deltaTime]
        b6 == [b5 EXCEPT !.bankruptcyRisk =
                            Min(FRACTION, (b5.daysSinceProfit * FRACTION)
                                              \div (RISK_DAYS * ECON_DT_SCALE))]
    IN  updateBusinessEmployment(b6, building, agts)

\* updateBusinesses(buildings, agents, deltaTime)
updateBusinesses(list, bldgs, agts, deltaTime) ==
    [i \in 1 .. Len(list) |->
        LET business == list[i]
            index == findBuilding(bldgs, business.buildingId)
        IN  IF index = 0 \/ bldgs[index].status # "operational"
            THEN [business EXCEPT !.isOperational = FALSE]
            ELSE updateOperational(business, bldgs[index], bldgs, agts, deltaTime)]

\* addBusiness(business)
AddBusiness(business) ==
    /\ businesses' = Append(businesses, business)
    /\ ret' = Void
    /\ UNCHANGED <<constructionVars, pathVars, clockVars, terrainVars, syncVars, storeVars>>
    /\ UNCHANGED <<econCalls, tradeGoods, inflationRate, economicData, report>>

\* removeBusiness(businessId)
RemoveBusiness(businessId) ==
    /\ businesses' = SelectSeq(businesses, LAMBDA b : b.id # businessId)
    /\ ret' = Void
    /\ UNCHANGED <<constructionVars, pathVars, clockVars, terrainVars, syncVars, storeVars>>
    /\ UNCHANGED <<econCalls, tradeGoods, inflationRate, economicData, report>>

(* EconomicEngine: the trade goods, the taxes, the indicators and the
   report.  Supply, demand and the wealth distribution are in hundredths,
   price multipliers and the rating score in thousandths, the inflation rate
   in millionths, tax money in cents; the report's gdp is in whole currency
   units and its trade balance in hundredths of a unit. *)

HUNDREDTHS == 100
MILLIONTHS == 1000000
INITIAL_SUPPLY == 100
INITIAL_DEMAND == 100
MIN_MANUFACTURED_SUPPLY == 50
BASE_MANUFACTURED_SUPPLY == 80
MIN_DEMAND == 20
DEMAND_SPREAD == 10
INITIAL_INFLATION == 20000
MAX_INFLATION == 100000
INFLATION_SPREAD == 500
INTEREST_PERCENT == 5
DAYS_PER_YEAR == 365
MONTHS_PER_YEAR == 12
BUSINESS_TAX_DIVISOR == 4
DEFAULT_TAX_RATE == 10
FULL_HEALTH_FUNDS == 100000

\* initializeTradeGoods: the goods in Map order, their types and base prices
GoodIds == <<"food", "materials", "manufactured", "luxury", "energy", "technology">>
GoodIdSet == {GoodIds[i] : i \in 1 .. Len(GoodIds)}

basePrice(good) ==
    CASE good = "food" -> 100
      [] good = "materials" -> 200
      [] good = "manufactured" -> 300
      [] good = "luxury" -> 500
      [] good = "energy" -> 150
      [] good = "technology" -> 400

goodType(good) ==
    CASE good = "food" -> "food"
      [] good = "materials" -> "raw_materials"
      [] good = "manufactured" -> "manufactured_goods"
      [] good = "luxury" -> "luxury_items"
      [] good = "energy" -> "energy"
      [] good = "technology" -> "technology"

\* initializeTradeGoods: every good is imported, at its base price
InitialTradeGoods ==
    [g \in GoodIdSet |->
        [currentPrice |-> basePrice(g), demand |-> INITIAL_DEMAND * HUNDREDTHS,
         supply |-> INITIAL_SUPPLY * HUNDREDTHS, imported |-> TRUE]]

\* The EconomicData the engine is built with: the store's initial data
InitialEconomicData ==
    [funds |-> 100000 * CENTS, totalLoans |-> 0, income |-> 0, expenses |-> 0,
     netIncome |-> 0, totalTaxRevenue |-> 0, creditRating |-> 100,
     wealthDistribution |-> [low |-> 60 * HUNDREDTHS, medium |-> 30 * HUNDREDTHS,
                             high |-> 10 * HUNDREDTHS],
     taxRate |-> [residential |-> 12, commercial |-> 15, industrial |-> 10, office |-> 14]]

\* The engine as one value
Engine ==
    [businesses |-> businesses, tradeGoods |-> tradeGoods,
     inflationRate |-> inflationRate, economicData |-> economicData]

InstallEngine(E) ==
    /\ businesses' = E.businesses
    /\ tradeGoods' = E.tradeGoods
    /\ inflationRate' = E.inflationRate
    /\ economicData' = E.economicData

\* Math.random() of updateTradeGoods (per good: Math.random() * 20 - 10, in
\* hundredths) and of updateEconomicIndicators ((Math.random() - 0.5) * 0.001,
\* in millionths): the draws of one call
NoFluctuation == [demand |-> [g \in GoodIdSet |-> 0], inflation |-> 0]

\* updateTradeGoods(deltaTime)
updateTradeGoods(E, rnd) ==
    LET manufacturers == {i \in 1 .. Len(E.businesses) :
                             /\ E.businesses[i].type = "manufacturing"
                             /\ E.businesses[i].isOperational}
        \* sum of the efficiencies (thousandths) * 10, in hundredths
        industrialOutput ==
            SumOver([i \in manufacturers |-> E.businesses[i].efficiency], manufacturers)
        populationFactor == E.economicData.wealthDistribution.low \div 2
                            + E.economicData.wealthDistribution.medium
                            + (E.economicData.wealthDistribution.high * 3) \div 2
        updated(g) ==
            LET good == E.tradeGoods[g]
                supply == IF goodType(g) = "manufactured_goods"
                          THEN Max(MIN_MANUFACTURED_SUPPLY * HUNDREDTHS,
                                   BASE_MANUFACTURED_SUPPLY * HUNDREDTHS + industrialOutput)
                          ELSE good.supply
                demand == Max(MIN_DEMAND * HUNDREDTHS, populationFactor + rnd.demand[g])
                supplyDemandRatio == (supply * FRACTION) \div Max(HUNDREDTHS, demand)
                priceMultiplier == Clamp(FRACTION \div 2, 2 * FRACTION,
                                         2 * FRACTION - supplyDemandRatio)
            IN  [good EXCEPT !.supply = supply, !.demand = demand,
                             \* Math.round
                             !.currentPrice = (basePrice(g) * priceMultiplier
                                                   + FRACTION \div 2) \div FRACTION]
    IN  [E EXCEPT !.tradeGoods = [g \in GoodIdSet |-> updated(g)]]

\* getTaxRate(zoneType), a percentage
getTaxRate(E, zoneType) ==
    IF zoneType \in DOMAIN E.economicData.taxRate /\ E.economicData.taxRate[zoneType] # 0
    THEN E.economicData.taxRate[zoneType]
    ELSE DEFAULT_TAX_RATE

\* updateTaxation(buildings), in cents
updateTaxation(E, bldgs) ==
    LET operational == {i \in 1 .. Len(bldgs) : bldgs[i].status = "operational"}
        dailyTax(i) == (bldgs[i].property_value * CENTS * getTaxRate(E, bldgs[i].zoneType))
                          \div (PERCENT * MONTHS_PER_YEAR * DAYS_PER_MONTH)
        taxed == {i \in 1 .. Len(E.businesses) :
                     E.businesses[i].isOperational /\ E.businesses[i].profit > 0}
        totalRevenue ==
            SumOver([i \in operational |-> dailyTax(i)], operational)
            + SumOver([i \in taxed |-> E.businesses[i].profit \div BUSINESS_TAX_DIVISOR], taxed)
    IN  [E EXCEPT !.economicData.totalTaxRevenue = totalRevenue,
                  !.economicData.income = totalRevenue]

\* updateEconomicIndicators(deltaTime)
updateEconomicIndicators(E, rnd) ==
    LET all == 1 .. Len(E.businesses)
        totalWealth == SumOver([i \in all |-> Max(0, E.businesses[i].profit)], all)
        low == Max(30 * HUNDREDTHS, 60 * HUNDREDTHS - totalWealth \div CENTS)
        high == Min(30 * HUNDREDTHS, 10 * HUNDREDTHS + totalWealth \div (2 * CENTS))
    IN  [E EXCEPT
            !.inflationRate = Clamp(0, MAX_INFLATION, @ + rnd.inflation),
            !.economicData.wealthDistribution =
                IF totalWealth > 0
                THEN [low |-> low, medium |-> 100 * HUNDREDTHS - low - high, high |-> high]
                ELSE @]

\* updateLoansAndInterest(deltaTime)
updateLoansAndInterest(E, deltaTime) ==
    IF E.economicData.totalLoans > 0
    THEN LET expenses == E.economicData.expenses
                         + (((E.economicData.totalLoans * INTEREST_PERCENT)
                                \div (PERCENT * DAYS_PER_YEAR)) * deltaTime) \div ECON_DT_SCALE
         IN  [E EXCEPT !.economicData.expenses = expenses,
                       !.economicData.netIncome = E.economicData.income - expenses]
    ELSE E

\* updateCityRating: the score, in thousandths of a point
creditScore(E) ==
    LET all == 1 .. Len(E.businesses)
        funds == E.economicData.funds \div CENTS
        loans == E.economicData.totalLoans \div CENTS
        financialHealth == Clamp(0, FRACTION, (funds * FRACTION) \div FULL_HEALTH_FUNDS)
        profitable == Cardinality({i \in all : E.businesses[i].isOperational
                                               /\ E.businesses[i].profit > 0})
        economicGrowth == (profitable * FRACTION) \div Max(1, Len(E.businesses))
        debtRatio == (loans * FRACTION) \div Max(1, funds)
    IN  (financialHealth * 4 + economicGrowth * 4 - Min(FRACTION, debtRatio) * 2) * 10

\* updateCityRating
updateCityRating(E) ==
    LET score == creditScore(E)
    IN  [E EXCEPT !.economicData.creditRating =
                      IF score >= 80 * FRACTION THEN 100
                      ELSE IF score >= 60 * FRACTION THEN 80
                      ELSE IF score >= 40 * FRACTION THEN 60
                      ELSE 40]

cityRatings == <<"AAA", "AA", "A", "BBB", "BB", "B", "CCC">>

\* no report was returned yet
NoReport ==
    [gdp |-> 0, unemployment |-> 0, inflation |-> 0, tradeBalance |-> 0,
     governmentRevenue |-> 0, governmentExpenses |-> 0, cityRating |-> "none"]

\* generateEconomicReport(buildings, agents)
generateEconomicReport(E, bldgs, agts) ==
    LET citizens == {i \in 1 .. Len(agts) : agts[i].type = "citizen"}
        population == Cardinality(citizens)
        employedPopulation ==
            Cardinality({i \in citizens : agts[i].employment = "employed"})
        operational == {i \in 1 .. Len(E.businesses) : E.businesses[i].isOperational}
        value(g, quantity) == E.tradeGoods[g][quantity] * E.tradeGoods[g].currentPrice
        exported == {g \in GoodIdSet : ~E.tradeGoods[g].imported}
        imported == {g \in GoodIdSet : E.tradeGoods[g].imported}
        exportValue == SumOver([g \in exported |-> value(g, "supply")], exported)
        importValue == SumOver([g \in imported |-> value(g, "demand")], imported)
        ratingIndex == (E.economicData.creditRating * (Len(cityRatings) - 1)) \div PERCENT
    IN  [gdp |-> SumOver([i \in operational |-> E.businesses[i].revenue \div CENTS],
                         operational) * DAYS_PER_YEAR,
         \* thousandths of a percent
         unemployment |-> IF population > 0
                          THEN ((population - employedPopulation) * PERCENT * FRACTION)
                                   \div population
                          ELSE 0,
         inflation |-> E.inflationRate * PERCENT,
         tradeBalance |-> exportValue - importValue,
         governmentRevenue |-> E.economicData.income,
         governmentExpenses |-> E.economicData.expenses,
         cityRating |-> cityRatings[ratingIndex + 1]]

\* updateEconomy(deltaTime, buildings, agents) with the draws rnd: each step
\* works on the engine the step before left, and the report is made from the
\* engine the last step left.  updateMarketConditions is in demandByZone and
\* supplyByZone, which the businesses read
updateEconomy(deltaTime, bldgs, agts, rnd) ==
    \E E1 \in {[Engine EXCEPT !.businesses = updateBusinesses(@, bldgs, agts, deltaTime)]} :
    \E E2 \in {updateTradeGoods(E1, rnd)} :
    \E E3 \in {updateTaxation(E2, bldgs)} :
    \E E4 \in {updateEconomicIndicators(E3, rnd)} :
    \E E5 \in {updateLoansAndInterest(E4, deltaTime)} :
    \E E6 \in {updateCityRating(E5)} :
        /\ InstallEngine(E6)
        /\ report' = generateEconomicReport(E6, bldgs, agts)

UpdateEconomy(deltaTime, bldgs, agts, rnd) ==
    /\ updateEconomy(deltaTime, bldgs, agts, rnd)
    /\ ret' = EconomicReport
    /\ econCalls' = econCalls + 1
    /\ UNCHANGED <<constructionVars, pathVars, clockVars, terrainVars, syncVars, storeVars>>

---------------------------------------------------------------------------
(* TerrainSystem.  Lengths are in half world units; distances and radii in
   hundredths of a world unit; values, pollution, noise, scenic value, soil
   quality, intensities and falloffs in thousandths; elevations in tenths;
   deltaTime in tenths of a second; Date.now() in milliseconds. *)

\* the cells of a side of the grid
TerrainGridWidth == 2
TERRAIN_CELL_SIZE == 4
BASE_VALUE == 500
WATER_BONUS_DISTANCE == 5000
WATER_PROXIMITY_BONUS == 300
OPTIMAL_ELEVATION == 100
ELEVATION_FACTOR == 200
POLLUTION_PENALTY == 500
NOISE_PENALTY == 300
SCENIC_BONUS == 400
SOIL_WEIGHT == 200
PROTECTED_BONUS == 150
WATER_CELL_DISTANCE == 200
WATER_SCENIC_INTENSITY == 600
WATER_SCENIC_RADIUS == 2000
PROTECTED_SCENIC_INTENSITY == 800
SPREAD_THRESHOLD == 50
NOISE_THRESHOLD == 10
FILTER_RADIUS == 500
FILTER_PER_TENTH == 5
RECOVERY_PER_TENTH == 2
GLOBAL_UPDATE_MS == 30000
\* Number(x) of something that is no number
NaN == -1000000

TerrainCellIds == (0 .. TerrainGridWidth - 1) \X (0 .. TerrainGridWidth - 1)

\* initializeTerrain: worldX and worldZ of the cell (x, z)
cellPosition(c) ==
    LET halfSize == (TerrainGridWidth * TERRAIN_CELL_SIZE) \div 2
    IN  [x |-> -halfSize + ((2 * c[1] + 1) * TERRAIN_CELL_SIZE) \div 2,
         z |-> -halfSize + ((2 * c[2] + 1) * TERRAIN_CELL_SIZE) \div 2]

\* Math.floor(Math.sqrt(n)), by bisection
RECURSIVE SqrtBetween(_, _, _)
SqrtBetween(n, low, high) ==
    IF low = high THEN low
    ELSE LET mid == (low + high + 1) \div 2
         IN  IF mid * mid <= n THEN SqrtBetween(n, mid, high)
             ELSE SqrtBetween(n, low, mid - 1)

\* Math.sqrt((cell.x - p.x) ** 2 + (cell.z - p.z) ** 2), in hundredths of a
\* world unit
planarDistance(c, p) ==
    LET dx == cellPosition(c).x - p.x
        dz == cellPosition(c).z - p.z
    IN  SqrtBetween((dx * dx + dz * dz) * 2500, 0, 46340)

\* The terrain as one value
Terrain ==
    [cells |-> terrainCells, factors |-> environmentalFactors, water |-> waterBodies,
     queue |-> updateQueue, lastGlobalUpdate |-> lastGlobalUpdate]

InstallTerrain(T) ==
    /\ terrainCells' = T.cells
    /\ environmentalFactors' = T.factors
    /\ waterBodies' = T.water
    /\ updateQueue' = T.queue
    /\ lastGlobalUpdate' = T.lastGlobalUpdate

\* the points of all the water bodies: <<body, index>>
waterPoints(water) ==
    UNION {{<<i, j>> : j \in 1 .. Len(water[i])} : i \in 1 .. Len(water)}

\* updateWaterDistances
updateWaterDistances(T) ==
    LET points == waterPoints(T.water)
        distances(c) == {planarDistance(c, T.water[ij[1]][ij[2]]) : ij \in points}
        minDistance(c) ==
            IF points = {} THEN Infinity
            ELSE CHOOSE d \in distances(c) : \A e \in distances(c) : d <= e
    IN  [T EXCEPT !.cells =
            [c \in TerrainCellIds |->
                [T.cells[c] EXCEPT !.waterDistance = minDistance(c),
                                   !.isWater = minDistance(c) < WATER_CELL_DISTANCE]]]

\* the exponential falloff Math.exp(-normalizedDistance * 3) and the
\* logarithmic one, 1 - Math.log(1 + normalizedDistance * 2) / Math.log(3),
\* at every tenth of the normalized distance
ExponentialFalloff == <<1000, 741, 549, 407, 301, 223, 165, 122, 91, 67, 50>>
LogarithmicFalloff == <<1000, 834, 694, 572, 465, 369, 282, 203, 130, 63, 0>>

\* calculateFalloff(distance, radius, type), for distance <= radius
calculateFalloff(distance, radius, type) ==
    LET tenths == Min(10, (distance * 10) \div radius)
    IN  IF type = "exponential" THEN ExponentialFalloff[tenths + 1]
        ELSE IF type = "logarithmic" THEN LogarithmicFalloff[tenths + 1]
        ELSE Max(0, FRACTION - (distance * FRACTION) \div radius)

\* calculateCellValue: the pollution, the noise and the scenic value that
\* reach the cell, and the value before it is bounded
cellFactors(T, c) ==
    LET cell == T.cells[c]
        waterBonus ==
            IF cell.waterDistance < WATER_BONUS_DISTANCE /\ ~cell.isWater
            THEN (Max(0, WATER_BONUS_DISTANCE - cell.waterDistance) * WATER_PROXIMITY_BONUS)
                     \div WATER_BONUS_DISTANCE
            ELSE 0
        elevationDifference == Abs(cell.elevation - OPTIMAL_ELEVATION)
        elevationFactor ==
            (Max(0, OPTIMAL_ELEVATION - elevationDifference) * ELEVATION_FACTOR)
                \div OPTIMAL_ELEVATION
        reaching == {i \in 1 .. Len(T.factors) :
                        planarDistance(c, T.factors[i].source) <= T.factors[i].radius}
        impact(i) ==
            (T.factors[i].intensity
                 * calculateFalloff(planarDistance(c, T.factors[i].source),
                                    T.factors[i].radius, T.factors[i].falloffType))
                \div FRACTION
        total(type) ==
            LET these == {i \in reaching : T.factors[i].type = type}
            IN  SumOver([i \in these |-> impact(i)], these)
    IN  [pollution |-> total("pollution"), noise |-> total("noise"),
         scenic |-> total("scenic"),
         value |-> cell.baseValue + waterBonus + elevationFactor
                   - (total("pollution") * POLLUTION_PENALTY) \div FRACTION
                   - (total("noise") * NOISE_PENALTY) \div FRACTION
                   + (total("scenic") * SCENIC_BONUS) \div FRACTION
                   + ((cell.soilQuality - FRACTION \div 2) * SOIL_WEIGHT) \div FRACTION
                   + (IF cell.isProtected THEN PROTECTED_BONUS ELSE 0)]

\* calculateCellValue with the value stored as it comes
calculateCellValue_Unbounded(T, c) ==
    LET found == cellFactors(T, c)
    IN  [T.cells[c] EXCEPT !.pollution = found.pollution, !.noise = found.noise,
                           !.scenicValue = found.scenic,
                           !.currentValue = found.value]

\* calculateCellValue(cell): the cell after it
calculateCellValue(T, c) ==
    LET found == cellFactors(T, c)
    IN  [T.cells[c] EXCEPT !.pollution = found.pollution, !.noise = found.noise,
                           !.scenicValue = found.scenic,
                           !.currentValue = Clamp(0, FRACTION, found.value)]

\* updateAllTerrainValues: every cell computed and queued
updateAllTerrainValues(T) ==
    [T EXCEPT !.cells = [c \in TerrainCellIds |-> calculateCellValue(T, c)],
              !.queue = TerrainCellIds]

\* updateQueuedCells
updateQueuedCells(T) ==
    [T EXCEPT !.cells = [c \in TerrainCellIds |->
                            IF c \in T.queue THEN calculateCellValue(T, c) ELSE T.cells[c]]]

\* updateEnvironmentalFactors(buildings, agents): what a zone emits:
\* pollution, noise, radius
emission(zoneType) ==
    CASE zoneType = "industrial" -> [pollution |-> 800, noise |-> 600, radius |-> 2500]
      [] zoneType = "commercial" -> [pollution |-> 200, noise |-> 400, radius |-> 1500]
      [] zoneType = "office" -> [pollution |-> 100, noise |-> 200, radius |-> 1000]
      [] zoneType = "residential" -> [pollution |-> 50, noise |-> 100, radius |-> 800]
      [] OTHER -> [pollution |-> 0, noise |-> 0, radius |-> 1000]

EnvironmentalFactor(type, source, intensity, radius, falloffType) ==
    [type |-> type, source |-> source, intensity |-> intensity, radius |-> radius,
     falloffType |-> falloffType]

\* the factors of the buildings from index i on
RECURSIVE buildingFactors(_, _)
buildingFactors(bldgs, i) ==
    IF i > Len(bldgs) THEN <<>>
    ELSE LET building == bldgs[i]
             emitted == emission(building.zoneType)
             \* building.level || 1
             level == IF building.level = 0 THEN 1 ELSE building.level
         IN  (IF building.status = "operational" /\ emitted.pollution > 0
              THEN <<EnvironmentalFactor("pollution", building.position,
                                         emitted.pollution * level, emitted.radius,
                                         "exponential")>>
              ELSE <<>>)
             \o (IF building.status = "operational" /\ emitted.noise > 0
                 THEN <<EnvironmentalFactor("noise", building.position,
                                            emitted.noise * level,
                                            (emitted.radius * 8) \div 10, "logarithmic")>>
                 ELSE <<>>)
             \o buildingFactors(bldgs, i + 1)

\* the scenic factors of the points of the water bodies from body i on
RECURSIVE waterFactors(_, _)
waterFactors(water, i) ==
    IF i > Len(water) THEN <<>>
    ELSE [j \in 1 .. Len(water[i]) |->
             EnvironmentalFactor("scenic", water[i][j], WATER_SCENIC_INTENSITY,
                                 WATER_SCENIC_RADIUS, "linear")]
         \o waterFactors(water, i + 1)

\* updateEnvironmentalFactors(buildings, agents), declared first: the list
\* of factors made anew
emitFactors(T, bldgs) ==
    [T EXCEPT !.factors =
        buildingFactors(bldgs, 1) \o waterFactors(T.water, 1)
        \o [i \in 1 .. Len(protectedAreas) |->
                EnvironmentalFactor("scenic", protectedAreas[i].center,
                                    PROTECTED_SCENIC_INTENSITY,
                                    (protectedAreas[i].radius * 3) \div 2, "linear")]]

\* getNeighborCells: the cells one cell size away along an axis
getNeighborCells(c) ==
    {n \in TerrainCellIds : Abs(n[1] - c[1]) + Abs(n[2] - c[2]) = 1}

\* spreadPollution(deltaTime)
spreadPollution(T, deltaTime) ==
    LET donors == {c \in TerrainCellIds : T.cells[c].pollution > SPREAD_THRESHOLD}
        \* cell.pollution * spreadRate / neighbors.length
        spreadAmount(c) ==
            IF deltaTime = NaN THEN NaN
            ELSE (T.cells[c].pollution * deltaTime) \div (100 * Cardinality(getNeighborCells(c)))
        givers(n) == {c \in donors : n \in getNeighborCells(c)}
        amount(n) ==
            IF deltaTime = NaN THEN NaN
            ELSE SumOver([c \in givers(n) |-> spreadAmount(c)], givers(n))
        receivers == {n \in TerrainCellIds : givers(n) # {} /\ ~T.cells[n].isWater}
    IN  [T EXCEPT
            !.cells = [n \in TerrainCellIds |->
                          IF n \in receivers
                          THEN [T.cells[n] EXCEPT
                                   !.pollution =
                                       IF amount(n) = NaN \/ @ = NaN THEN NaN
                                       ELSE Min(FRACTION, @ + amount(n))]
                          ELSE T.cells[n]],
            !.queue = @ \cup receivers]

\* updateWaterQuality(deltaTime): a cell loses the filtration rate once for
\* every water point within 5 of it, while it has pollution
updateWaterQuality(T, deltaTime) ==
    LET points == waterPoints(T.water)
        passes(c) == Cardinality({ij \in points :
                                     planarDistance(c, T.water[ij[1]][ij[2]])
                                         <= FILTER_RADIUS})
        filtered == {c \in TerrainCellIds : passes(c) > 0 /\ T.cells[c].pollution > 0}
    IN  [T EXCEPT
            !.cells = [c \in TerrainCellIds |->
                          IF c \in filtered
                          THEN [T.cells[c] EXCEPT
                                   !.pollution =
                                       IF deltaTime = NaN THEN NaN
                                       ELSE Max(0, @ - passes(c) * deltaTime * FILTER_PER_TENTH)]
                          ELSE T.cells[c]],
            !.queue = @ \cup filtered]

\* naturalRecovery without the bound at 0
naturalRecovery_NoFloor(T, deltaTime) ==
    LET recoveryRate == IF deltaTime = NaN THEN NaN ELSE deltaTime * RECOVERY_PER_TENTH
        polluted == {c \in TerrainCellIds : T.cells[c].pollution > 0}
        noisy == {c \in TerrainCellIds : T.cells[c].noise > NOISE_THRESHOLD}
    IN  [T EXCEPT
            !.cells = [c \in TerrainCellIds |->
                          [T.cells[c] EXCEPT
                              !.pollution = IF c \notin polluted THEN @
                                            ELSE IF recoveryRate = NaN THEN NaN
                                            ELSE @ - recoveryRate,
                              !.noise = IF c \notin noisy THEN @
                                        ELSE IF recoveryRate = NaN THEN NaN
                                        ELSE @ - recoveryRate * 2]],
            !.queue = @ \cup polluted \cup noisy]

\* naturalRecovery(deltaTime)
naturalRecovery(T, deltaTime) ==
    LET recoveryRate == IF deltaTime = NaN THEN NaN ELSE deltaTime * RECOVERY_PER_TENTH
        polluted == {c \in TerrainCellIds : T.cells[c].pollution > 0}
        noisy == {c \in TerrainCellIds : T.cells[c].noise > NOISE_THRESHOLD}
    IN  [T EXCEPT
            !.cells = [c \in TerrainCellIds |->
                          [T.cells[c] EXCEPT
                              !.pollution = IF c \notin polluted THEN @
                                            ELSE IF recoveryRate = NaN THEN NaN
                                            ELSE Max(0, @ - recoveryRate),
                              !.noise = IF c \notin noisy THEN @
                                        ELSE IF recoveryRate = NaN THEN NaN
                                        ELSE Max(0, @ - recoveryRate * 2)]],
            !.queue = @ \cup polluted \cup noisy]

\* Number(buildings), which the body declared last multiplies as its
\* deltaTime: 0 for an empty array, NaN for an array of objects
NumberOfArray(bldgs) == IF bldgs = <<>> THEN 0 ELSE NaN

\* updateEnvironmentalFactors(deltaTime), declared last; Then is what
\* follows the call
updateEnvironmentalFactors(T, deltaTime, Then(_)) ==
    \E T1 \in {spreadPollution(T, deltaTime)} :
    \E T2 \in {updateWaterQuality(T1, deltaTime)} :
    \E T3 \in {naturalRecovery(T2, deltaTime)} :
        Then(T3)

\* The last lines of updateTerrainValues: all the cells when more than 30
\* seconds passed since they were last all computed, the queued cells
\* otherwise, and the queue emptied
recompute(T, currentTime, Then(_)) ==
    \E T1 \in {IF currentTime - T.lastGlobalUpdate > GLOBAL_UPDATE_MS
                THEN [updateAllTerrainValues(T) EXCEPT !.lastGlobalUpdate = currentTime]
                ELSE updateQueuedCells(T)} :
        Then([T1 EXCEPT !.queue = {}])

\* updateTerrainValues(buildings, agents) at Date.now() = currentTime.  The
\* class declares updateEnvironmentalFactors twice, (buildings, agents) and
\* (deltaTime): the call reaches the body its arguments fit, or the body
\* declared last, which then takes the array for its deltaTime
updateTerrainValues(T, bldgs, currentTime, Then(_)) ==
    IF factorsMethod = "bySignature"
    THEN \E T1 \in {emitFactors(T, bldgs)} : recompute(T1, currentTime, Then)
    ELSE updateEnvironmentalFactors(T, NumberOfArray(bldgs),
                                    LAMBDA T1 : recompute(T1, currentTime, Then))

UpdateTerrainValues(bldgs, currentTime) ==
    /\ updateTerrainValues(Terrain, bldgs, currentTime, InstallTerrain)
    /\ terrainCalls' = terrainCalls + 1
    /\ ret' = Void
    /\ UNCHANGED <<protectedAreas, factorsMethod>>
    /\ UNCHANGED <<constructionVars, pathVars, clockVars, econVars, syncVars, storeVars>>

UpdateEnvironmentalFactors(deltaTime) ==
    /\ updateEnvironmentalFactors(Terrain, deltaTime, InstallTerrain)
    /\ terrainCalls' = terrainCalls + 1
    /\ ret' = Void
    /\ UNCHANGED <<protectedAreas, factorsMethod>>
    /\ UNCHANGED <<constructionVars, pathVars, clockVars, econVars, syncVars, storeVars>>

\* addWaterBody(points)
AddWaterBody(points) ==
    /\ \E T1 \in {updateWaterDistances([Terrain EXCEPT !.water = Append(@, points)])} :
       \E T2 \in {updateAllTerrainValues(T1)} :
          InstallTerrain(T2)
    /\ ret' = Void
    /\ UNCHANGED <<protectedAreas, factorsMethod, terrainCalls>>
    /\ UNCHANGED <<constructionVars, pathVars, clockVars, econVars, syncVars, storeVars>>

---------------------------------------------------------------------------
(* CitySimulation: the clock and the gated subsystems *)

OBSTACLE_HALF_SIZE == 2

\* PathfindingSystem.updateObstacles: the cells under the footprints,
\* sampled every half cell from the low corner
updateObstacles(positions) ==
    LET samples(c) == {c - OBSTACLE_HALF_SIZE + k * HalfCell :
                          k \in 0 .. (2 * OBSTACLE_HALF_SIZE) \div HalfCell}
    IN  UNION {{worldToGrid(Vector3(x, 0, z), 1) :
                   x \in samples(positions[i].x), z \in samples(positions[i].z)}
               : i \in 1 .. Len(positions)}

\* what a caller hands to updateObstacles for a building: its position and
\* half its width and depth
Footprint(position, halfWidth, halfDepth) ==
    [position |-> position, halfWidth |-> halfWidth, halfDepth |-> halfDepth]

\* PathfindingSystem.updateObstacles for buildings of any size: the cells of
\* the points sampled every half cell from the low corner of every footprint
updateObstaclesOf(footprints) ==
    LET samples(c, half) == {c - half + k * HalfCell : k \in 0 .. (2 * half) \div HalfCell}
    IN  UNION {{worldToGrid(Vector3(x, 0, z), 1) :
                   x \in samples(footprints[i].position.x, footprints[i].halfWidth),
                   z \in samples(footprints[i].position.z, footprints[i].halfDepth)}
               : i \in 1 .. Len(footprints)}

\* PathfindingSystem.updateRoads: for every stretch of every road, the cells
\* of its sample points and the cells around them
updateRoads(roadList) ==
    LET around(c) == {n \in Cells : Abs(n[1] - c[1]) <= 1 /\ Abs(n[2] - c[2]) <= 1}
        stretch(start, end) ==
            LET segments == CeilDistanceOverHalf(start, end, 2 * cellSize)
            IN  UNION {around(worldToGrid(
                                  Vector3(start.x * segments + (end.x - start.x) * j, 0,
                                          start.z * segments + (end.z - start.z) * j),
                                  segments))
                       : j \in IF segments = 0 THEN {} ELSE 0 .. segments}
    IN  UNION {UNION {stretch(roadList[r][i], roadList[r][i + 1]) :
                         i \in 1 .. Len(roadList[r]) - 1}
               : r \in 1 .. Len(roadList)}

\* updateObstacles(buildings) called on the pathfinder
UpdateObstacles(footprints) ==
    /\ search.status # "searching"
    /\ obstacles' = updateObstaclesOf(footprints)
    /\ ret' = Void
    /\ UNCHANGED <<roads, search, pathRet>>
    /\ UNCHANGED <<constructionVars, clockVars, econVars, terrainVars, syncVars, storeVars>>

\* updateRoads(roadPoints) called on the pathfinder
UpdateRoads(roadList) ==
    /\ search.status # "searching"
    /\ roads' = updateRoads(roadList)
    /\ ret' = Void
    /\ UNCHANGED <<obstacles, search, pathRet>>
    /\ UNCHANGED <<constructionVars, clockVars, econVars, terrainVars, syncVars, storeVars>>

\* performance.now() advances
ClockTick(d) ==
    /\ perfNow' = perfNow + d
    /\ ret' = Void
    /\ UNCHANGED <<constructionVars, pathVars, econVars, terrainVars, syncVars, storeVars>>
    /\ UNCHANGED <<simState, updateIntervals, simRoads, agents, ran, topologyChanged>>

\* start()
Start ==
    /\ simState' = IF simState.isRunning THEN simState
                   ELSE [simState EXCEPT !.isRunning = TRUE, !.isPaused = FALSE,
                                         !.lastUpdateTime = perfNow]
    /\ ret' = Void
    /\ UNCHANGED <<constructionVars, pathVars, econVars, terrainVars, syncVars, storeVars>>
    /\ UNCHANGED <<perfNow, updateIntervals, simRoads, agents, ran, topologyChanged>>

\* pause()
Pause ==
    /\ simState' = [simState EXCEPT !.isPaused = TRUE]
    /\ ret' = Void
    /\ UNCHANGED <<constructionVars, pathVars, econVars, terrainVars, syncVars, storeVars>>
    /\ UNCHANGED <<perfNow, updateIntervals, simRoads, agents, ran, topologyChanged>>

\* resume(), which forgets to take the time
resume_KeepsLastUpdateTime(state, time) == [state EXCEPT !.isPaused = FALSE]

\* resume()
resume(state, time) == [state EXCEPT !.isPaused = FALSE, !.lastUpdateTime = time]

Resume ==
    /\ simState' = resume(simState, perfNow)
    /\ ret' = Void
    /\ UNCHANGED <<constructionVars, pathVars, econVars, terrainVars, syncVars, storeVars>>
    /\ UNCHANGED <<perfNow, updateIntervals, simRoads, agents, ran, topologyChanged>>

\* stop()
Stop ==
    /\ simState' = [simState EXCEPT !.isRunning = FALSE, !.isPaused = FALSE]
    /\ ret' = Void
    /\ UNCHANGED <<constructionVars, pathVars, econVars, terrainVars, syncVars, storeVars>>
    /\ UNCHANGED <<perfNow, updateIntervals, simRoads, agents, ran, topologyChanged>>

\* setGameSpeed(speed)
SetGameSpeed(speed) ==
    /\ simState' = [simState EXCEPT
                       !.gameSpeed = Max(MIN_GAME_SPEED, Min(MAX_GAME_SPEED, speed))]
    /\ ret' = Void
    /\ UNCHANGED <<constructionVars, pathVars, econVars, terrainVars, syncVars, storeVars>>
    /\ UNCHANGED <<perfNow, updateIntervals, simRoads, agents, ran, topologyChanged>>

\* addRoad(roadPoints)
AddRoad(roadPoints) ==
    /\ simRoads' = Append(simRoads, roadPoints)
    /\ updateIntervals' = schedulePathfindingUpdate(updateIntervals, simState.totalGameTime)
    /\ topologyChanged' = TRUE
    /\ ran' = [ran EXCEPT !.awaited = TRUE]
    /\ ret' = Void
    /\ UNCHANGED <<constructionVars, pathVars, econVars, terrainVars, syncVars, storeVars>>
    /\ UNCHANGED <<perfNow, simState, agents>>

\* updateIntervals.get(systemName) || 1.0
configuredInterval(systemName) ==
    LET interval == IF systemName = "terrain" THEN TERRAIN_INTERVAL
                    ELSE IF systemName = "pathfinding" THEN PATHFINDING_INTERVAL
                    ELSE IF systemName = "agents" THEN AgentUpdateInterval
                    ELSE EconomicUpdateInterval
    IN  IF interval = 0 THEN DEFAULT_INTERVAL ELSE interval

\* shouldUpdateSystem: its answer
shouldUpdateSystem(last, systemName, totalGameTime) ==
    totalGameTime - last[systemName] >= configuredInterval(systemName)

\* the Building objects of the simulation, as the economy reads them
SimEconBuildings(bs) ==
    [i \in 1 .. Len(simBuildings) |-> EconBuilding(simBuildings[i], bs[simBuildings[i]].status)]

\* a Building as the terrain reads it
TerrainBuilding(zoneType, level, status, position) ==
    [zoneType |-> zoneType, level |-> level, status |-> status, position |-> position]

\* Date.now() of a call of updateTerrainValues: within 30 seconds of the
\* last time all the cells were computed, or later
FirstDateNow == 100000
TerrainElapsed == {10000, 31000}
DateNowChoices == {Max(lastGlobalUpdate, FirstDateNow) + e : e \in TerrainElapsed}

\* updatePathfinding: the positions of the operational buildings
operationalPositions(bs) ==
    LET operational == SelectSeq(simBuildings, LAMBDA b : bs[b].status = "operational")
    IN  [i \in 1 .. Len(operational) |-> BuildingFields(operational[i]).position]

\* spawnNewAgents: the homes that may get a new citizen: operational
\* residential buildings with room
spawnCandidates(bs, agts) ==
    {b \in {simBuildings[i] : i \in 1 .. Len(simBuildings)} :
        /\ BuildingFields(b).zoneType = "residential"
        /\ bs[b].status = "operational"
        /\ Cardinality({i \in 1 .. Len(agts) : agts[i].type = "citizen"
                                                /\ agts[i].homeId = bs[b].id})
               < BuildingFields(b).capacity}

\* spawnNewAgents, for the homes the 1% draws picked, in list order; the
\* citizen is an adult with secondary education, employed or not by the draw
RECURSIVE spawnNewAgents(_, _, _, _)
spawnNewAgents(bs, agts, list, picked) ==
    IF list = <<>> THEN agts
    ELSE spawnNewAgents(bs,
                        IF Head(list) \in DOMAIN picked
                        THEN Append(agts, Citizen(bs[Head(list)].id, NoBuilding,
                                                  picked[Head(list)], "secondary",
                                                  BuildingFields(Head(list)).position))
                        ELSE agts,
                        Tail(list), picked)

\* updateEconomics: the draws of the engine's Math.random() taken up
ClockEconDraws == {NoFluctuation}

\* update: the test of its first line, for a running simulation only
updateReturnsAtOnce_IgnoresPause(state) == ~state.isRunning

\* update: the test of its first line
updateReturnsAtOnce(state) == ~state.isRunning \/ state.isPaused

\* update(currentTime): nothing for a simulation that is paused or not
\* running; else the frame, then updateSubsystems: the construction of every
\* building under construction, then the gated subsystems in their order
Update(currentTime) ==
    IF updateReturnsAtOnce(simState)
    THEN /\ ran' = [ran EXCEPT !.returnedAtOnce = TRUE, !.tick = <<>>]
         /\ ret' = Void
         /\ UNCHANGED <<constructionVars, pathVars, econVars, terrainVars, syncVars, storeVars>>
         /\ UNCHANGED <<perfNow, simState, updateIntervals, simRoads, agents,
                        topologyChanged>>
    ELSE
    /\ LET deltaTime == currentTime - simState.lastUpdateTime
           scaledDeltaTime == deltaTime * simState.gameSpeed
           totalGameTime == simState.totalGameTime + scaledDeltaTime
           constructing == ConstructingBuildings
       IN  /\ simState' = [simState EXCEPT !.totalGameTime = totalGameTime,
                                           !.frameCount = @ + 1,
                                           !.lastUpdateTime = currentTime]
           /\ \E S \in SimUpdateAll({St}, constructing,
                                    scaledDeltaTime \div (SECONDS_PER_DT * TIME_SCALE)) :
                 LET completed == SomeCompleted(S, constructing)
                     last == IF completed
                             THEN schedulePathfindingUpdate(updateIntervals, totalGameTime)
                             ELSE updateIntervals
                     runs(s) == shouldUpdateSystem(last, s, totalGameTime)
                 IN  /\ Install(S)
                     /\ updateCalls' = IF constructing = <<>> THEN updateCalls
                                       ELSE updateCalls + 1
                     /\ updateIntervals' = [s \in GatedSystemSet |->
                                               IF runs(s) THEN totalGameTime ELSE last[s]]
                     /\ ran' = [returnedAtOnce |-> FALSE,
                                tick |-> SelectSeq(GatedSystems, runs),
                                lastRan |-> [s \in GatedSystemSet |->
                                                IF runs(s) THEN <<totalGameTime>>
                                                ELSE ran.lastRan[s]],
                                awaited |-> FALSE]
                     /\ IF runs("pathfinding")
                        THEN /\ obstacles' = updateObstacles(operationalPositions(S.buildings))
                             /\ roads' = updateRoads(simRoads)
                             /\ topologyChanged' = FALSE
                        ELSE /\ UNCHANGED <<obstacles, roads>>
                             /\ topologyChanged' = (topologyChanged \/ completed)
                     /\ IF runs("agents")
                        THEN \E homes \in SUBSET spawnCandidates(S.buildings, agents) :
                               \E picked \in [homes -> {"employed", "unemployed"}] :
                                  agents' = spawnNewAgents(S.buildings, agents,
                                                           simBuildings, picked)
                        ELSE UNCHANGED agents
                     /\ IF runs("economics")
                        THEN /\ \E rnd \in ClockEconDraws :
                                   updateEconomy(scaledDeltaTime,
                                                 SimEconBuildings(S.buildings),
                                                 agents', rnd)
                             /\ econCalls' = econCalls + 1
                        ELSE UNCHANGED econVars
    /\ ret' = Void
    /\ UNCHANGED <<now, nextProjectSeq, deliveries, poolCalls, simBuildings>>
    /\ UNCHANGED <<search, pathRet, perfNow, simRoads>>
    /\ UNCHANGED <<terrainVars, syncVars, storeVars>>

---------------------------------------------------------------------------
(* CitySync.  The data of a city is the number of the message that brought
   it, one digit; an asynchronous call is the steps between its awaits. *)

notSyncVars == <<constructionVars, pathVars, clockVars, econVars, terrainVars, storeVars>>

CityIds == 1 .. NumCities
NoCityData == [data |-> 0, checksum |-> 0, known |-> FALSE]
CHAR_CODE_0 == 48

\* calculateChecksum(data): the hash of the JSON text, which for one digit
\* is its character code
calculateChecksum(data) == CHAR_CODE_0 + data

CityData(data, checksum) == [data |-> data, checksum |-> checksum, known |-> TRUE]

\* no synchronize call is running
NoSynchronize == [awaiting |-> FALSE, unsettled |-> {}]

\* addCity(cityId, cityData)
AddCity(cityId, cityData) ==
    /\ syncCities' = [syncCities EXCEPT
                         ![cityId] = CityData(cityData, calculateChecksum(cityData))]
    /\ ret' = Void
    /\ UNCHANGED <<syncQueue, conflictQueue, synchronizing, storageCalls, storageFailures,
                   lastAccepted>>
    /\ UNCHANGED notSyncVars

\* resolveConcurrentModification: deepMerge(remoteData, localData), which for
\* data of one value is the local data
resolveConflict(conflict) == conflict.localData

\* updateCity(cityId, cityData): rejects for a city not in the region; else
\* notes a conflict when the stored data no longer has its checksum, stores
\* the update and puts it in the queue
UpdateCity(cityId, cityData) ==
    IF ~syncCities[cityId].known
    THEN /\ ret' = "rejected"
         /\ UNCHANGED <<syncCities, syncQueue, conflictQueue, synchronizing, storageCalls,
                        storageFailures, lastAccepted>>
         /\ UNCHANGED notSyncVars
    ELSE LET existingCity == syncCities[cityId]
             conflicting == existingCity.checksum # calculateChecksum(existingCity.data)
             conflict == [cityId |-> cityId, localData |-> cityData,
                          remoteData |-> existingCity.data]
             updatedCityData ==
                 CityData(IF conflicting THEN resolveConflict(conflict) ELSE cityData,
                          calculateChecksum(cityData))
         IN  /\ conflictQueue' = IF conflicting THEN Append(conflictQueue, conflict)
                                 ELSE conflictQueue
             /\ syncCities' = [syncCities EXCEPT ![cityId] = updatedCityData]
             /\ syncQueue' = [syncQueue EXCEPT ![cityId] = updatedCityData]
             /\ lastAccepted' = [lastAccepted EXCEPT ![cityId] = updatedCityData.data]
             /\ ret' = Void
             /\ UNCHANGED <<synchronizing, storageCalls, storageFailures>>
             /\ UNCHANGED notSyncVars

\* the cities in the queue
Queued == {c \in CityIds : syncQueue[c].known}

\* processConflicts: every conflict resolved, its city given the resolved
\* data and put in the queue; the queue after it
RECURSIVE processConflicts(_, _, _)
processConflicts(conflicts, cities, queue) ==
    IF conflicts = <<>> THEN [cities |-> cities, queue |-> queue]
    ELSE LET conflict == Head(conflicts)
             resolved == CityData(resolveConflict(conflict),
                                  calculateChecksum(resolveConflict(conflict)))
         IN  IF cities[conflict.cityId].known
             THEN processConflicts(Tail(conflicts),
                                   [cities EXCEPT ![conflict.cityId] = resolved],
                                   [queue EXCEPT ![conflict.cityId] = resolved])
             ELSE processConflicts(Tail(conflicts), cities, queue)

\* synchronize, after the queue was dealt with: updateSharedResources and
\* updateGreatWorks, which leave the cities and the queue alone, then
\* processConflicts
finishSynchronize(queue) ==
    LET after == processConflicts(conflictQueue, syncCities, queue)
    IN  /\ syncCities' = after.cities
        /\ syncQueue' = after.queue
        /\ conflictQueue' = <<>>
        /\ synchronizing' = NoSynchronize

\* synchronize(), up to its first await: with a queue that is not empty,
\* syncCitiesToDatabase calls storage.updateCity for every city in the queue
\* and awaits all of them
Synchronize ==
    /\ ~synchronizing.awaiting
    /\ IF Queued # {}
       THEN /\ storageCalls' = storageCalls \cup {<<c, syncQueue[c].data>> : c \in Queued}
            /\ synchronizing' = [awaiting |-> TRUE,
                                  unsettled |-> {<<c, syncQueue[c].data>> : c \in Queued}]
            /\ UNCHANGED <<syncCities, syncQueue, conflictQueue>>
       ELSE /\ finishSynchronize(syncQueue)
            /\ UNCHANGED storageCalls
    /\ ret' = Void
    /\ UNCHANGED <<storageFailures, lastAccepted>>
    /\ UNCHANGED notSyncVars

\* storage.updateCity settles for a call of the running synchronize:
\* resolved, or rejected, which the catch of syncCitiesToDatabase only logs
StorageSettles(call, resolved) ==
    /\ synchronizing.awaiting
    /\ call \in synchronizing.unsettled
    /\ synchronizing' = [synchronizing EXCEPT !.unsettled = @ \ {call}]
    /\ storageFailures' = IF resolved THEN storageFailures ELSE storageFailures \cup {call}
    /\ ret' = IF resolved THEN "resolved" ELSE "rejected"
    /\ UNCHANGED <<syncCities, syncQueue, conflictQueue, storageCalls, lastAccepted>>
    /\ UNCHANGED notSyncVars

\* synchronize() resumes when every call has settled: syncCitiesToDatabase
\* clears the queue, and the rest of synchronize runs
SynchronizeResumes ==
    /\ synchronizing.awaiting
    /\ synchronizing.unsettled = {}
    /\ finishSynchronize([c \in CityIds |-> NoCityData])
    /\ ret' = Void
    /\ UNCHANGED <<storageCalls, storageFailures, lastAccepted>>
    /\ UNCHANGED notSyncVars

---------------------------------------------------------------------------
(* useGameStore: the buildings, the population and the achievements.  Game
   time is in game minutes and a frame's delta in half seconds; the speed is
   'normal' and the game is not paused.  Of a building its type, zone,
   status, construction progress (in game minutes) and residents are kept,
   and of the city statistics the population. *)

notStoreVars == <<constructionVars, pathVars, clockVars, econVars, terrainVars, syncVars>>

GAME_TIME_SCALE == 60
START_OF_DAY == 480
GAME_HOUR == 60
STARTING_FUNDS == 100000
DEFAULT_TOOL_COST == 10000
SCHOOL_COST == 50000
CONSTRUCTION_TIME == 24
BASE_CAPACITY == 4
POPULATION_REQUIREMENT == 100

Achievement(id, requirement) ==
    [id |-> id, requirement |-> requirement, currentProgress |-> 0, isUnlocked |-> FALSE]

InitialAchievements ==
    << Achievement("first_building", 1),
       Achievement("population_100", POPULATION_REQUIREMENT),
       Achievement("education_milestone", 1) >>

AchievementIds == {InitialAchievements[i].id : i \in 1 .. Len(InitialAchievements)}

\* the tool's cost, or the default for a tool without one
toolCost(type) == IF type = "service_school" THEN SCHOOL_COST ELSE DEFAULT_TOOL_COST

\* initializeGame()
InitializeGame ==
    /\ isInitialized' = TRUE
    /\ gameTime' = START_OF_DAY
    /\ storeCalls' = storeCalls + 1
    /\ ret' = Void
    /\ UNCHANGED <<storeBuildings, cityStats, achievements, unlockCount>>
    /\ UNCHANGED notStoreVars

\* placeBuilding(type, position)
PlaceBuilding(type) ==
    /\ IF STARTING_FUNDS < toolCost(type)
       THEN ret' = "false" /\ UNCHANGED storeBuildings
       ELSE /\ storeBuildings' =
                   Append(storeBuildings,
                          [type |-> type,
                           zoneType |-> IF type = "zone_residential" THEN "residential"
                                        ELSE "undefined",
                           status |-> "constructing",
                           constructionProgress |-> 0,
                           residents |-> 0])
            /\ ret' = "true"
    /\ storeCalls' = storeCalls + 1
    /\ UNCHANGED <<isInitialized, gameTime, cityStats, achievements, unlockCount>>
    /\ UNCHANGED notStoreVars

\* unlockAchievement(achievementId) on the achievements and the rewards given
\* so far: nothing for an unknown or unlocked achievement, else the
\* achievement unlocked and its reward applied
unlockAchievement(achs, counts, achievementId) ==
    IF \/ ~\E i \in 1 .. Len(achs) : achs[i].id = achievementId
       \/ \E i \in 1 .. Len(achs) : achs[i].id = achievementId /\ achs[i].isUnlocked
    THEN [achievements |-> achs, unlockCount |-> counts]
    ELSE [achievements |->
              [i \in 1 .. Len(achs) |->
                  IF achs[i].id = achievementId
                  THEN [achs[i] EXCEPT !.isUnlocked = TRUE,
                                       !.currentProgress = achs[i].requirement]
                  ELSE achs[i]],
          unlockCount |-> [counts EXCEPT ![achievementId] = @ + 1]]

\* the progress checkAchievements measures for an achievement
measuredProgress(id, bldgs, stats) ==
    CASE id = "first_building" ->
             Cardinality({i \in 1 .. Len(bldgs) : bldgs[i].status = "operational"})
      [] id = "population_100" -> stats.population
      [] id = "education_milestone" ->
             Cardinality({i \in 1 .. Len(bldgs) : bldgs[i].type = "service_school"})
      [] OTHER -> 0

\* checkAchievements(), from the i-th achievement of the state it read at its
\* start: an achievement that state has locked is unlocked when its progress
\* suffices, and else the achievements are set to those of that state with
\* the progress of this one
RECURSIVE checkAchievementsFrom(_, _, _, _, _, _)
checkAchievementsFrom(i, state, achs, counts, bldgs, stats) ==
    IF i > Len(state) THEN [achievements |-> achs, unlockCount |-> counts]
    ELSE LET achievement == state[i]
             currentProgress == measuredProgress(achievement.id, bldgs, stats)
             unlocked == unlockAchievement(achs, counts, achievement.id)
         IN  IF achievement.isUnlocked
             THEN checkAchievementsFrom(i + 1, state, achs, counts, bldgs, stats)
             ELSE IF currentProgress >= achievement.requirement
             THEN checkAchievementsFrom(i + 1, state, unlocked.achievements,
                                        unlocked.unlockCount, bldgs, stats)
             ELSE checkAchievementsFrom(i + 1, state,
                                        [state EXCEPT ![i].currentProgress = currentProgress],
                                        counts, bldgs, stats)

checkAchievements(achs, counts, bldgs, stats) ==
    checkAchievementsFrom(1, achs, achs, counts, bldgs, stats)

\* checkAchievements() called on the store
CheckAchievements ==
    /\ \E result \in {checkAchievements(achievements, unlockCount, storeBuildings, cityStats)} :
          /\ achievements' = result.achievements
          /\ unlockCount' = result.unlockCount
    /\ storeCalls' = storeCalls + 1
    /\ ret' = Void
    /\ UNCHANGED <<isInitialized, gameTime, storeBuildings, cityStats>>
    /\ UNCHANGED notStoreVars

\* unlockAchievement(achievementId) called on the store
UnlockAchievement(achievementId) ==
    /\ \E result \in {unlockAchievement(achievements, unlockCount, achievementId)} :
          /\ achievements' = result.achievements
          /\ unlockCount' = result.unlockCount
    /\ storeCalls' = storeCalls + 1
    /\ ret' = Void
    /\ UNCHANGED <<isInitialized, gameTime, storeBuildings, cityStats>>
    /\ UNCHANGED notStoreVars

\* the population of the operational residential buildings
storePopulation(bldgs) ==
    SumOver([i \in 1 .. Len(bldgs) |->
                IF bldgs[i].zoneType = "residential" /\ bldgs[i].status = "operational"
                THEN bldgs[i].residents ELSE 0],
            1 .. Len(bldgs))

\* a building after delta game minutes of construction
constructed(building, minutes) ==
    IF building.status # "constructing" THEN building
    ELSE IF building.constructionProgress + minutes >= CONSTRUCTION_TIME * 60
    THEN [building EXCEPT !.status = "operational",
                          !.constructionProgress = CONSTRUCTION_TIME * 60,
                          !.residents = IF building.zoneType = "residential"
                                        THEN (BASE_CAPACITY * 8) \div 10 ELSE 0]
    ELSE [building EXCEPT !.constructionProgress = @ + minutes]

\* updateSimulation(delta): nothing before initializeGame; else the time
\* advances, the population is counted, the buildings are constructed, and
\* on a full game hour the achievements are checked
UpdateSimulation(delta) ==
    IF ~isInitialized
    THEN /\ ret' = Void
         /\ storeCalls' = storeCalls + 1
         /\ UNCHANGED <<isInitialized, gameTime, storeBuildings, cityStats, achievements,
                        unlockCount>>
         /\ UNCHANGED notStoreVars
    ELSE LET minutes == (delta * GAME_TIME_SCALE) \div 2
             newGameTime == gameTime + minutes
             updatedBuildings ==
                 [i \in 1 .. Len(storeBuildings) |-> constructed(storeBuildings[i], minutes)]
             newStats == [cityStats EXCEPT !.population = storePopulation(storeBuildings)]
         IN  /\ gameTime' = newGameTime
             /\ storeBuildings' = updatedBuildings
             /\ cityStats' = newStats
             /\ IF newGameTime % GAME_HOUR = 0
                THEN \E result \in {checkAchievements(achievements, unlockCount,
                                                      updatedBuildings, newStats)} :
                        /\ achievements' = result.achievements
                        /\ unlockCount' = result.unlockCount
                ELSE UNCHANGED <<achievements, unlockCount>>
             /\ storeCalls' = storeCalls + 1
             /\ ret' = Void
             /\ UNCHANGED isInitialized
             /\ UNCHANGED notStoreVars

---------------------------------------------------------------------------
(* The initial states *)

\* new PathfindingSystem: nothing blocked, no road, no call made
PathfindingInit ==
    /\ obstacles = {}
    /\ roads = {}
    /\ search = NoSearch
    /\ pathRet = NoPathResult

\* new CitySimulation
SimulationInit ==
    /\ perfNow = 0
    /\ simState = InitialSimState
    /\ updateIntervals = InitialLastRun
    /\ simRoads = <<>>
    /\ agents = <<>>
    /\ ran = NothingRan
    /\ topologyChanged = FALSE

\* new EconomicEngine
EconomyInit ==
    /\ businesses = <<>>
    /\ econCalls = 0
    /\ tradeGoods = InitialTradeGoods
    /\ inflationRate = INITIAL_INFLATION
    /\ economicData = InitialEconomicData
    /\ report = NoReport

\* new TerrainSystem: the cells as initializeTerrain leaves them, with the
\* elevation and the soil quality the noise gave, the water bodies and the
\* protected areas generated
TerrainInitWith(elevation, soilQuality, water, areas, method) ==
    LET raw == [cells |-> [c \in TerrainCellIds |->
                              [elevation |-> elevation, soilQuality |-> soilQuality,
                               baseValue |-> BASE_VALUE, currentValue |-> BASE_VALUE,
                               pollution |-> 0, noise |-> 0, scenicValue |-> 0,
                               waterDistance |-> Infinity, isWater |-> FALSE,
                               isProtected |->
                                   \E i \in 1 .. Len(areas) :
                                       planarDistance(c, areas[i].center)
                                           <= areas[i].radius]],
                factors |-> <<>>, water |-> water, queue |-> {},
                lastGlobalUpdate |-> 0]
    IN  /\ \E T1 \in {updateWaterDistances(raw)} :
           \E T2 \in {updateAllTerrainValues(T1)} :
              /\ terrainCells = T2.cells
              /\ updateQueue = T2.queue
        /\ environmentalFactors = <<>>
        /\ waterBodies = water
        /\ protectedAreas = areas
        /\ lastGlobalUpdate = 0
        /\ terrainCalls = 0
        /\ factorsMethod = method

\* a world whose water is far from the cells modelled
FarWater == << <<Vector3(120, 0, 120)>> >>

TerrainMethods == {"bySignature", "lastDeclared"}

\* a terrain at the preferred elevation, with poor soil, nothing protected
PlainTerrainInit(method) ==
    TerrainInitWith(OPTIMAL_ELEVATION, FRACTION \div 10, FarWater, <<>>, method)

SyncInit ==
    /\ syncCities = [c \in CityIds |-> NoCityData]
    /\ syncQueue = [c \in CityIds |-> NoCityData]
    /\ conflictQueue = <<>>
    /\ synchronizing = NoSynchronize
    /\ storageCalls = {}
    /\ storageFailures = {}
    /\ lastAccepted = [c \in CityIds |-> 0]

StoreInit ==
    /\ isInitialized = FALSE
    /\ gameTime = 0
    /\ storeBuildings = <<>>
    /\ cityStats = [population |-> 0]
    /\ achievements = InitialAchievements
    /\ unlockCount = [id \in AchievementIds |-> 0]
    /\ storeCalls = 0

Init ==
    /\ EngineInit
    /\ BuildingsInit
    /\ PathfindingInit
    /\ SimulationInit
    /\ EconomyInit
    /\ PlainTerrainInit("lastDeclared")
    /\ SyncInit
    /\ StoreInit

---------------------------------------------------------------------------
(* The specifications *)

ProjectIdInputs == {ProjectId(n) : n \in 1 .. PoolMaxProjects} \cup {UnknownId}
BuildingIdInputs == {BuildingId(b) : b \in BuildingObjs} \cup {UnknownId}
WorkerIdInputs ==
    {workers[i].id : i \in 1 .. Len(workers)} \cup {UnknownId}

\* The life of the projects of one building, with the initial workers
Next ==
    \/ now < MaxNow /\ Tick
    \/ /\ nextProjectSeq < MaxProjects
       /\ \E bp \in Blueprints, q \in MaterialQualities, ds \in DelayChoices(0) :
             StartConstruction(1, bp, q, ds)
    \/ updateCalls < MaxUpdateCalls /\ \E dt \in DeltaTimes : UpdateConstruction(1, dt)
    \/ \E id \in ProjectIdInputs : CancelProject(id)
    \/ /\ deliveries < MaxDeliveries
       /\ \E id \in DOMAIN projects, m \in MaterialTypes, pc \in ShipmentPercents :
             DeliverMaterial(id, m, pc)
    \/ \E id \in DOMAIN projects : AdoptProjectId(1, id)

Spec == Init /\ [][Next]_vars

\* Two projects and a changing pool of workers.  The steps are those that
\* move workers: a phase change (ten days) and a completion (sixty days),
\* after full deliveries.
PoolDeltaTimes == {1000, 6000}
PoolShipmentPercents == {100}
PoolHireCounts == {1}
PoolDelayChoices ==
    {ds \in DelayChoices(0) : \A m \in DOMAIN ds, d \in DeliveryDelays : ds[m] <= d}

PoolNext ==
    \/ now < PoolMaxNow /\ Tick
    \/ /\ nextProjectSeq < PoolMaxProjects
       /\ \E b \in BuildingObjs, bp \in Blueprints, q \in MaterialQualities,
             ds \in PoolDelayChoices : StartConstruction(b, bp, q, ds)
    \/ /\ updateCalls < PoolMaxUpdateCalls
       /\ \E b \in BuildingObjs, dt \in PoolDeltaTimes : UpdateConstruction(b, dt)
    \/ \E id \in ProjectIdInputs : CancelProject(id)
    \/ /\ poolCalls < PoolMaxPoolCalls
       /\ \E n \in PoolHireCounts, sp \in Specializations :
             /\ Len(workers) + n <= MaxWorkers
             /\ \E effs \in [1 .. n -> Efficiencies] : HireWorkers(n, sp, effs)
    \/ poolCalls < PoolMaxPoolCalls /\ \E id \in WorkerIdInputs : FireWorker(id)
    \/ /\ deliveries < PoolMaxDeliveries
       /\ \E id \in DOMAIN projects, m \in MaterialTypes, pc \in PoolShipmentPercents :
             DeliverMaterial(id, m, pc)
    \/ \E b \in BuildingObjs, id \in DOMAIN projects : AdoptProjectId(b, id)

PoolSpec == Init /\ [][PoolNext]_vars

\* One building's project that is never cancelled, while the clock runs on
\* and updateConstruction keeps being called with dt > 0.  No call of the
\* program writes material.delivered, so no delivery is among the steps.
LiveMaxNow == 8
LiveDeltaTimes == {1000, 6000}

\* updateConstruction(building, deltaTime), called without end: the calls are
\* not counted
UpdateConstructionAgain(b, deltaTime) ==
    /\ \E rnd \in RndChoices(St, b, deltaTime) :
            Install(updateConstruction(St, b, deltaTime, rnd))
    /\ ret' = Void
    /\ UNCHANGED <<pathVars, clockVars, econVars, terrainVars, syncVars, storeVars>>
    /\ UNCHANGED <<now, nextProjectSeq, updateCalls, deliveries, poolCalls, simBuildings>>

LiveTick == now < LiveMaxNow /\ Tick
LiveUpdate == \E dt \in LiveDeltaTimes : UpdateConstructionAgain(1, dt)

LiveNext ==
    \/ LiveTick
    \/ /\ nextProjectSeq < MaxProjects
       /\ \E bp \in Blueprints, q \in MaterialQualities, ds \in DelayChoices(0) :
             StartConstruction(1, bp, q, ds)
    \/ LiveUpdate
    \/ \E id \in DOMAIN projects : AdoptProjectId(1, id)

\* the clock goes on and the host keeps calling updateConstruction
LiveSpec == Init /\ [][LiveNext]_vars /\ WF_vars(LiveTick) /\ WF_vars(LiveUpdate)

\* The orchestrator driving the engine
CityNext ==
    \/ now < CityMaxNow /\ Tick
    \/ /\ nextProjectSeq < CityMaxProjects
       /\ \E b \in BuildingObjs, bp \in Blueprints, q \in MaterialQualities,
             ds \in DelayChoices(0) : StartConstruction(b, bp, q, ds)
    \/ \E b \in BuildingObjs : AddBuilding(b)
    \/ \E id \in ProjectIdInputs \cup BuildingIdInputs : RemoveBuilding(id)
    \/ /\ updateCalls < CityMaxUpdateCalls
       /\ \E dt \in DeltaTimes : SimUpdateConstruction(dt)
    \/ /\ updateCalls < CityMaxUpdateCalls
       /\ \E b \in BuildingObjs, dt \in DeltaTimes : UpdateConstruction(b, dt)
    \/ \E id \in ProjectIdInputs \cup BuildingIdInputs : CancelProject(id)
    \/ poolCalls < CityMaxPoolCalls /\ \E id \in WorkerIdInputs : FireWorker(id)
    \/ /\ deliveries < CityMaxDeliveries
       /\ \E id \in DOMAIN projects, m \in MaterialTypes, pc \in PoolShipmentPercents :
             DeliverMaterial(id, m, pc)
    \/ \E b \in BuildingObjs, id \in DOMAIN projects : AdoptProjectId(b, id)

CitySpec == Init /\ [][CityNext]_vars

MaxObstacles == 3

\* The pathfinder on a grid as updateObstacles and updateRoads left it:
\* any set of MaxObstacles blocked cells or fewer (a building smaller than a
\* cell blocks the cell it stands in), no road, a road through the corner cell (0, 0) or a road
\* through the edge cell (0, 1); a road marks its cells and the cells around
\* them.
RoadChoices == {{}, {c \in Cells : c[1] <= 1 /\ c[2] <= 1}, {c \in Cells : c[1] <= 1}}

PathInit ==
    /\ EngineInit
    /\ BuildingsInit
    /\ SimulationInit
    /\ EconomyInit
    /\ PlainTerrainInit("lastDeclared")
    /\ SyncInit
    /\ StoreInit
    /\ obstacles \in {o \in SUBSET Cells : Cardinality(o) <= MaxObstacles}
    /\ roads \in RoadChoices
    /\ search = NoSearch
    /\ pathRet = NoPathResult

\* Positions: the centre of cell (0, 0) at walking height, a point near it
\* in the same cell, the centre of the opposite corner cell on the ground,
\* the centre of cell (1, GridWidth - 1) on the far edge, and a point left of
\* the world's extent.
CornerPos == Vector3(-(GridWidth - 1) * HalfCell, PATH_HEIGHT, -(GridWidth - 1) * HalfCell)
NearCornerPos == Vector3(CornerPos.x + 8, PATH_HEIGHT, CornerPos.z + 4)
FarCornerPos == Vector3((GridWidth - 1) * HalfCell, 0, (GridWidth - 1) * HalfCell)
FarEdgePos == Vector3(-(GridWidth - 3) * HalfCell, 0, (GridWidth - 1) * HalfCell)
OutsidePos == Vector3(-(GridWidth + 2) * HalfCell, PATH_HEIGHT, 0)
StartPositions == {CornerPos, NearCornerPos, OutsidePos}
EndPositions == {CornerPos, NearCornerPos, FarCornerPos, FarEdgePos, OutsidePos}

PathNext ==
    \/ \E startPos \in StartPositions, endPos \in EndPositions : FindPath(startPos, endPos)
    \/ AStarIterate

PathSpec == PathInit /\ [][PathNext]_vars

\* The economy: businesses as the store creates them, one of them 29 days
\* without profit, over buildings that are absent, under construction or
\* operational, with no agent or one employed resident.
MaxBusinesses == 2
MaxEconCalls == 2
EconDeltaTimes == {0, 20}
BusinessTypes == {"retail_store", "manufacturing"}

UnusedBusinessId ==
    CHOOSE n \in 1 .. MaxBusinesses + 1 :
        /\ \A i \in 1 .. Len(businesses) : businesses[i].id # <<"business", n>>
        /\ \A m \in 1 .. n - 1 : \E i \in 1 .. Len(businesses) : businesses[i].id = <<"business", m>>

BusinessInputs ==
    LET fresh == {createBusiness(<<"business", UnusedBusinessId>>, id, type) :
                     id \in {BuildingId(b) : b \in BuildingObjs}, type \in BusinessTypes}
    IN  fresh \cup {[b EXCEPT !.daysSinceProfit = (BANKRUPT_DAYS - 1) * ECON_DT_SCALE,
                              !.bankruptcyRisk = FRACTION] : b \in fresh}

BuildingStatuses == {"absent", "constructing", "operational"}

EconBuildingLists ==
    {LET present == SelectSeq([b \in 1 .. NumBuildings |-> b], LAMBDA b : st[b] # "absent")
     IN  [i \in 1 .. Len(present) |-> EconBuilding(present[i], st[present[i]])]
     : st \in [BuildingObjs -> BuildingStatuses]}

EconAgentLists ==
    {<<>>, <<Citizen(BuildingId(2), BuildingId(1), "employed", "secondary",
                     BuildingFields(2).position)>>}

EconNext ==
    \/ Len(businesses) < MaxBusinesses /\ \E business \in BusinessInputs : AddBusiness(business)
    \/ \E i \in 1 .. Len(businesses) : RemoveBusiness(businesses[i].id)
    \/ /\ econCalls < MaxEconCalls
       /\ \E dt \in EconDeltaTimes, bldgs \in EconBuildingLists, agts \in EconAgentLists :
             UpdateEconomy(dt, bldgs, agts, NoFluctuation)

EconSpec == Init /\ [][EconNext]_vars

\* The profits: on building 1, a shop as the store creates it, which loses
\* money, and a busy shop with a low rent, which earns money until its own
\* revenue raises its supply costs, new or after 29 days without profit;
\* both buildings present, under construction or operational.
BusyShop(business) == [business EXCEPT !.footTraffic = 10 * FRACTION, !.rent = 100 * CENTS]

ProfitBusinessInputs ==
    LET fresh == createBusiness(<<"business", UnusedBusinessId>>, BuildingId(1), "retail_store")
        days == (BANKRUPT_DAYS - 1) * ECON_DT_SCALE
    IN  {fresh, BusyShop(fresh),
         [BusyShop(fresh) EXCEPT
             !.daysSinceProfit = days,
             !.bankruptcyRisk = Min(FRACTION, (days * FRACTION) \div (RISK_DAYS * ECON_DT_SCALE))]}

ProfitBuildingLists == {bldgs \in EconBuildingLists : Len(bldgs) = NumBuildings}

ProfitNext ==
    \/ /\ Len(businesses) < MaxBusinesses
       /\ \E business \in ProfitBusinessInputs : AddBusiness(business)
    \/ /\ econCalls < MaxEconCalls
       /\ \E dt \in EconDeltaTimes, bldgs \in ProfitBuildingLists, agts \in EconAgentLists :
             UpdateEconomy(dt, bldgs, agts, NoFluctuation)

ProfitSpec == Init /\ [][ProfitNext]_vars

\* The taxes: the engine built with tax rates as the store keeps them, from
\* 0 to 50 percent, over the shops and the buildings of the profits.
CommercialTaxRates == {0, 15}
ResidentialTaxRates == {0, 12}

TaxInit ==
    /\ EngineInit
    /\ BuildingsInit
    /\ PathfindingInit
    /\ SimulationInit
    /\ businesses = <<>>
    /\ econCalls = 0
    /\ tradeGoods = InitialTradeGoods
    /\ inflationRate = INITIAL_INFLATION
    /\ \E commercial \in CommercialTaxRates, residential \in ResidentialTaxRates :
          economicData = [InitialEconomicData EXCEPT !.taxRate.commercial = commercial,
                                                     !.taxRate.residential = residential]
    /\ report = NoReport
    /\ PlainTerrainInit("lastDeclared")
    /\ SyncInit
    /\ StoreInit

TaxSpec == TaxInit /\ [][ProfitNext]_vars

\* The report: a world that is empty, or that has a fully occupied home and
\* two shops 5 and 15 units from it (lengths in half units), with the draws
\* of Math.random at their ends and in the middle.
MaxReportCalls == 2
ReportDeltaTimes == {0, 20}
HomeId == BuildingId(1)
NearShopId == BuildingId(2)
FarShopId == BuildingId(3)

PlacedBuilding(id, zoneType, x) ==
    [id |-> id, status |-> "operational", zoneType |-> zoneType,
     wealthLevel |-> "low", capacity |-> 2, property_value |-> 50000,
     position |-> Vector3(x, 0, 0)]

DistanceWorld ==
    <<PlacedBuilding(HomeId, "residential", 0),
      PlacedBuilding(NearShopId, "commercial", 10),
      PlacedBuilding(FarShopId, "commercial", 30)>>

\* the home's capacity is 2: two residents, at home
Residents ==
    [i \in 1 .. 2 |-> Citizen(HomeId, NoBuilding, "unemployed", "secondary",
                              Vector3(0, 0, 0))]

ReportBuildingLists == {<<>>, DistanceWorld}
ReportAgentLists == {<<>>, Residents}

\* Math.random() is in [0, 1)
ReportDraws ==
    {NoFluctuation,
     [demand |-> [g \in GoodIdSet |-> -DEMAND_SPREAD * HUNDREDTHS],
      inflation |-> -INFLATION_SPREAD],
     [demand |-> [g \in GoodIdSet |-> DEMAND_SPREAD * HUNDREDTHS - 1],
      inflation |-> INFLATION_SPREAD - 1]}

ShopInputs ==
    {createBusiness(<<"business", UnusedBusinessId>>, id, "retail_store") :
        id \in {NearShopId, FarShopId}}

ReportNext ==
    \/ Len(businesses) < MaxBusinesses /\ \E business \in ShopInputs : AddBusiness(business)
    \/ \E i \in 1 .. Len(businesses) : RemoveBusiness(businesses[i].id)
    \/ /\ econCalls < MaxReportCalls
       /\ \E dt \in ReportDeltaTimes, bldgs \in ReportBuildingLists,
             agts \in ReportAgentLists, rnd \in ReportDraws :
             UpdateEconomy(dt, bldgs, agts, rnd)

ReportSpec == Init /\ [][ReportNext]_vars

\* The terrain: four cells at the preferred elevation or far above it, with
\* poor or the best soil, water far away or on a cell, nothing or everything
\* protected; a factory of level 2 between the cells, or a house on a cell
\* beside one under construction.
MaxTerrainCalls == 3
MaxWaterBodies == 2
TerrainDeltaTimes == {0, 10, 50}
Elevations == {OPTIMAL_ELEVATION, 250}
SoilQualities == {FRACTION \div 10, FRACTION}
InitialWaterChoices == {FarWater, << <<Vector3(2, 0, 2)>> >>}
ProtectedAreaChoices == {<<>>, <<[center |-> Vector3(0, 0, 0), radius |-> 800]>>}
WaterBodyInputs == {<<Vector3(-2, 0, -2), Vector3(0, 0, 0)>>}
TerrainBuildingLists ==
    {<<>>,
     <<TerrainBuilding("industrial", 2, "operational", Vector3(0, 0, 0))>>,
     <<TerrainBuilding("residential", 0, "operational", Vector3(2, 0, 2)),
       TerrainBuilding("residential", 1, "constructing", Vector3(-2, 0, 2))>>}

TerrainInit ==
    /\ EngineInit
    /\ BuildingsInit
    /\ PathfindingInit
    /\ SimulationInit
    /\ EconomyInit
    /\ \E elevation \in Elevations, soilQuality \in SoilQualities,
          water \in InitialWaterChoices, areas \in ProtectedAreaChoices,
          method \in TerrainMethods :
          TerrainInitWith(elevation, soilQuality, water, areas, method)
    /\ SyncInit
    /\ StoreInit

TerrainNext ==
    \/ /\ terrainCalls < MaxTerrainCalls
       /\ \E bldgs \in TerrainBuildingLists, currentTime \in DateNowChoices :
             UpdateTerrainValues(bldgs, currentTime)
    \/ /\ terrainCalls < MaxTerrainCalls
       /\ \E dt \in TerrainDeltaTimes : UpdateEnvironmentalFactors(dt)
    \/ /\ Len(waterBodies) < MaxWaterBodies
       /\ \E points \in WaterBodyInputs : AddWaterBody(points)

TerrainSpec == TerrainInit /\ [][TerrainNext]_vars

\* The terrain beside a large factory that stays: its pollution reaches the
\* cells of the first column only, and whatever pollution the other cells
\* have has spread to them
RemoteFactory == TerrainBuilding("industrial", 10, "operational", Vector3(-51, 0, 0))
DiffusionBuildingLists == {<<RemoteFactory>>}

DiffusionNext ==
    \/ /\ terrainCalls < MaxTerrainCalls
       /\ \E bldgs \in DiffusionBuildingLists, currentTime \in DateNowChoices :
             UpdateTerrainValues(bldgs, currentTime)
    \/ /\ terrainCalls < MaxTerrainCalls
       /\ \E dt \in TerrainDeltaTimes : UpdateEnvironmentalFactors(dt)

DiffusionSpec == TerrainInit /\ [][DiffusionNext]_vars

\* The region of CitySync: cities join, updates arrive with rising numbers,
\* the timer calls synchronize, and the storage settles its calls
CityDataInputs(cityId) == {d \in 1 .. MaxCityUpdates : d > lastAccepted[cityId]}

SyncNext ==
    \/ \E c \in CityIds : ~syncCities[c].known /\ AddCity(c, 0)
    \/ \E c \in CityIds : \E d \in CityDataInputs(c) : UpdateCity(c, d)
    \/ Synchronize
    \/ \E call \in synchronizing.unsettled, resolved \in BOOLEAN : StorageSettles(call, resolved)
    \/ SynchronizeResumes

SyncSpec == Init /\ [][SyncNext]_vars

\* The game store: the game starts, buildings are placed, frames of half a
\* second and of a building's whole construction time pass, and the
\* achievements are checked and unlocked
StoreDeltas == {1, 2 * CONSTRUCTION_TIME}
StoreBuildingTypes == {"zone_residential", "service_school"}

StoreNext ==
    \/ ~isInitialized /\ InitializeGame
    \/ /\ storeCalls < MaxStoreCalls
       /\ Len(storeBuildings) < MaxStoreBuildings
       /\ \E type \in StoreBuildingTypes : PlaceBuilding(type)
    \/ storeCalls < MaxStoreCalls /\ \E delta \in StoreDeltas : UpdateSimulation(delta)
    \/ storeCalls < MaxStoreCalls /\ CheckAchievements
    \/ /\ storeCalls < MaxStoreCalls
       /\ \E id \in AchievementIds \cup {"unknown"} : UnlockAchievement(id)

StoreSpec == Init /\ [][StoreNext]_vars

\* The clock of the simulation, with one road and the residential building
\* to add, which is under construction or operational
MaxPerfNow == 15
MaxFrames == 3
MaxRoads == 1
ClockSteps == {5, 10}
GameSpeeds == {0, 11}
ClockBuildings == {NumBuildings}
RoadInputs == {<<nodePosition(<<0, 0>>), nodePosition(<<0, GridHeight - 1>>)>>}

ClockInit ==
    /\ EngineInit
    /\ \E status \in {"constructing", "operational"} :
          buildings = [b \in BuildingObjs |->
                          NewBuilding(b, IF b \in ClockBuildings THEN status
                                         ELSE "constructing")]
    /\ PathfindingInit
    /\ SimulationInit
    /\ EconomyInit
    /\ PlainTerrainInit("lastDeclared")
    /\ SyncInit
    /\ StoreInit

ClockNext ==
    \/ perfNow < MaxPerfNow /\ \E d \in ClockSteps : ClockTick(d)
    \/ Start
    \/ Pause
    \/ Resume
    \/ Stop
    \/ \E speed \in GameSpeeds : SetGameSpeed(speed)
    \/ simState.frameCount < MaxFrames /\ Update(perfNow)
    \/ \E b \in ClockBuildings : AddBuilding(b)
    \/ \E b \in ClockBuildings : RemoveBuilding(BuildingId(b))
    \/ Len(simRoads) < MaxRoads /\ \E roadPoints \in RoadInputs : AddRoad(roadPoints)

ClockSpec == ClockInit /\ [][ClockNext]_vars

\* The grid of the pathfinder under its callers: buildings of the default
\* size in the middle of a cell, across the line between two cells and left
\* of the world, a building two cells wide, and roads along an edge
DefaultFootprint(x, z) == Footprint(Vector3(x, 0, z), OBSTACLE_HALF_SIZE, OBSTACLE_HALF_SIZE)
CentredBuilding == DefaultFootprint(nodePosition(<<0, 0>>).x, nodePosition(<<0, 0>>).z)
StraddlingBuilding ==
    DefaultFootprint(nodePosition(<<0, 0>>).x + HalfCell - 1, nodePosition(<<0, 0>>).z)
OutsideBuilding == DefaultFootprint(OutsidePos.x, nodePosition(<<0, 1>>).z)
WideBuilding ==
    Footprint(nodePosition(<<1, 1>>), cellSize, OBSTACLE_HALF_SIZE)
FootprintLists ==
    {<<>>, <<CentredBuilding>>, <<StraddlingBuilding>>, <<WideBuilding>>,
     <<CentredBuilding, OutsideBuilding>>, <<WideBuilding, CentredBuilding>>}
CrossRoad == <<nodePosition(<<0, 0>>), nodePosition(<<GridWidth - 1, 0>>)>>

RoadLists == {<<>>, <<CrossRoad>>} \cup {<<road>> : road \in RoadInputs}

GridNext ==
    \/ \E footprints \in FootprintLists : UpdateObstacles(footprints)
    \/ \E roadList \in RoadLists : UpdateRoads(roadList)

GridSpec == PathInit /\ [][GridNext]_vars


---------------------------------------------------------------------------
(* What the operations are observed by *)

\* generateConstructionReport's totalInvestment
totalInvestment ==
    SumOver([id \in DOMAIN projects |-> projects[id].totalCostPaid], DOMAIN projects)
    + SumOver([k \in DOMAIN completedProjects |-> completedProjects[k].totalCostPaid],
              DOMAIN completedProjects)

\* The projects a step moves to the completed list
NewlyCompleted ==
    {completedProjects'[k] :
        k \in (Len(completedProjects) + 1) .. Len(completedProjects')}

\* The engine's state (not the caller's Building objects)
engineState == <<projects, completedProjects, workers, weatherConditions, economicConditions>>

---------------------------------------------------------------------------
(* Properties *)

\* C1: while a material of the current phase has a delivery date in the
\* future or less than half of its required quantity delivered,
\* updateConstruction marks the project delayed, leaves actualProgress as it
\* is and completes no phase.
C1_ShortOfMaterialsHalts ==
    [][\A b \in BuildingObjs, dt \in DeltaTimes :
          LET key == buildings[b].id
          IN  (/\ key \in DOMAIN projects
               /\ LET project == projects[key]
                      required == calculateMaterialRequirements(project.blueprint)
                  IN  \E m \in PhaseAt(project.currentPhase).requiredMaterials :
                         \/ project.deliveryDate[m] > now
                         \/ project.delivered[m] * 2 < required[m]
               /\ UpdateConstruction(b, dt))
              => /\ key \in DOMAIN projects'
                 /\ projects'[key].isDelayed
                 /\ projects'[key].actualProgress = projects[key].actualProgress
                 /\ projects'[key].phaseCompleted = projects[key].phaseCompleted
                 /\ projects'[key].currentPhase = projects[key].currentPhase
                 /\ completedProjects' = completedProjects]_vars

\* C1: an update has found the project short of a material whose delivery
\* date has passed (40% of it are there), and has marked it delayed at
\* progress 0 without charging a day's cost.
C1_Witness ==
    /\ updateCalls = 1
    /\ \E id \in DOMAIN projects :
          LET project == projects[id]
              required == calculateMaterialRequirements(project.blueprint)
          IN  /\ project.isDelayed
              /\ project.actualProgress = 0
              /\ project.totalCostPaid = 0
              /\ \E m \in PhaseAt(project.currentPhase).requiredMaterials :
                    /\ project.deliveryDate[m] <= now
                    /\ project.delivered[m] > 0
                    /\ project.delivered[m] * 2 < required[m]

\* C2: for a building b for which startConstruction created an active
\* project, updateConstruction(b, dt) with dt > 0 and the materials of the
\* current phase available adds rate * dt to the project's actualProgress (up
\* to 1.0) and sets b.constructionProgress to it.
C2_UpdateAdvancesTheBuildingsProject ==
    [][\A b \in BuildingObjs, dt \in DeltaTimes \ {0}, id \in DOMAIN projects :
          (/\ projects[id].buildingId = buildings[b].id
           /\ checkMaterialAvailability(projects[id],
                                        PhaseAt(projects[id].currentPhase), now)
           /\ UpdateConstruction(b, dt))
          => LET expected ==
                    AdvanceProgress(projects[id].actualProgress,
                        ProgressIncrement(calculateProgressRate(St, projects[id]), dt))
                 after == IF id \in DOMAIN projects'
                          THEN projects'[id]
                          ELSE completedProjects'[Len(completedProjects')]
             IN  /\ after.id = id
                 /\ after.actualProgress = expected
                 /\ buildings'[b].constructionProgress = expected]_vars

\* C3: every project on the completed list has its building (the one passed
\* under the id the project is filed under) at constructionProgress 1.0 and
\* operational; and a building turns operational only in a step that moves
\* its project to the completed list at actualProgress 1.0.
C3_CompletedMeansOperational ==
    [][/\ \A k \in 1 .. Len(completedProjects') :
             \E b \in BuildingObjs :
                /\ buildings'[b].id = completedProjects'[k].id
                /\ buildings'[b].constructionProgress = PROGRESS_ONE
                /\ buildings'[b].status = "operational"
       /\ \A b \in BuildingObjs :
             (buildings[b].status # "operational" /\ buildings'[b].status = "operational")
             => \E p \in NewlyCompleted :
                   /\ p.id = buildings[b].id
                   /\ p.id \in DOMAIN projects
                   /\ p.id \notin DOMAIN projects'
                   /\ p.actualProgress = PROGRESS_ONE]_vars

\* C3: a project is on the completed list and its building is operational at
\* full progress.
C3_Witness ==
    /\ Len(completedProjects) > 0
    /\ \E b \in BuildingObjs :
          /\ buildings[b].id = completedProjects[1].id
          /\ buildings[b].status = "operational"
          /\ buildings[b].constructionProgress = PROGRESS_ONE
          /\ completedProjects[1].actualProgress = PROGRESS_ONE

\* C4: the actualProgress of a project that is active before a step does not
\* decrease in the step and stays within [0, 1], whether the project stays
\* active or the step completes it, and whatever event the step draws.
C4_ProgressMonotoneAndBounded ==
    [][\A id \in DOMAIN projects :
          /\ 0 <= projects[id].actualProgress
          /\ projects[id].actualProgress <= PROGRESS_ONE
          /\ id \in DOMAIN projects' =>
                /\ projects'[id].actualProgress >= projects[id].actualProgress
                /\ projects'[id].actualProgress <= PROGRESS_ONE
          /\ \A p \in NewlyCompleted :
                p.id = id => /\ p.actualProgress >= projects[id].actualProgress
                             /\ p.actualProgress <= PROGRESS_ONE]_vars

\* C4: a project has advanced, has been hit by an event that delayed it, and
\* has been updated again.
C4_Witness ==
    /\ updateCalls >= 2
    /\ \E id \in DOMAIN projects :
          /\ projects[id].actualProgress > 0
          /\ projects[id].actualProgress < PROGRESS_ONE
          /\ projects[id].isDelayed

\* C5: currentPhase never decreases and grows by one at a time, phase i is
\* marked completed only after every phase before it, and every project on
\* the completed list has all four phases marked completed.
C5_PhasesInOrderAndAllCompleted ==
    [][/\ \A id \in DOMAIN projects \cap DOMAIN projects' :
             \/ projects'[id].currentPhase = projects[id].currentPhase
             \/ projects'[id].currentPhase = projects[id].currentPhase + 1
       /\ \A id \in DOMAIN projects' :
             \A i \in 0 .. NumPhases - 1 :
                projects'[id].phaseCompleted[i]
                => \A j \in 0 .. i - 1 : projects'[id].phaseCompleted[j]
       /\ \A k \in 1 .. Len(completedProjects') :
             \A i \in 0 .. NumPhases - 1 : completedProjects'[k].phaseCompleted[i]]_vars

\* C6: a worker serves one project at a time: a step gives a worker a new
\* assignment only if the worker is available and unassigned before it, and
\* a worker with an assignment is not available.
C6_WorkersNotShared ==
    [][/\ \A i \in 1 .. Len(workers') :
             workers'[i].assignedProjectId # NoProject
             => /\ ~workers'[i].availability
                /\ workers'[i].assignedProjectId \in DOMAIN projects'
       /\ Len(workers') >= Len(workers)
          => \A i \in 1 .. Len(workers) :
                (/\ workers'[i].assignedProjectId # workers[i].assignedProjectId
                 /\ workers'[i].assignedProjectId # NoProject)
                => /\ workers[i].availability
                   /\ workers[i].assignedProjectId = NoProject]_vars

\* C6: two active projects, each with a worker of its own.
C6_Witness ==
    /\ Cardinality(DOMAIN projects) = 2
    /\ \A id \in DOMAIN projects :
          \E i \in 1 .. Len(workers) : workers[i].assignedProjectId = id
    /\ poolCalls > 0

\* C7: the step that completes a project leaves every worker that was
\* assigned to it available and unassigned, and no worker refers to a
\* project on the completed list.
C7_CompletionReleasesWorkers ==
    [][/\ \A p \in NewlyCompleted :
             Len(workers') = Len(workers)
             => \A i \in 1 .. Len(workers) :
                   workers[i].assignedProjectId = p.id
                   => /\ workers'[i].availability
                      /\ workers'[i].assignedProjectId = NoProject
       /\ \A k \in 1 .. Len(completedProjects'), i \in 1 .. Len(workers') :
             workers'[i].assignedProjectId # completedProjects'[k].id]_vars

\* C7: a project that had workers is on the completed list and every worker
\* is available again.
C7_Witness ==
    /\ Len(completedProjects) > 0
    /\ completedProjects[1].workers > 0
    /\ projects = EmptyMap
    /\ \A i \in 1 .. Len(workers) :
          workers[i].availability /\ workers[i].assignedProjectId = NoProject

\* C8: cancelProject(id) on an active project returns true, and then the
\* project is neither active nor on the completed list and every worker that
\* was assigned to it is available and unassigned.
C8_CancelIsImmediate ==
    [][\A id \in DOMAIN projects :
          CancelProject(id)
          => /\ ret' = Bool(TRUE)
             /\ id \notin DOMAIN projects'
             /\ \A k \in 1 .. Len(completedProjects') : completedProjects'[k].id # id
             /\ Len(workers') = Len(workers)
             /\ \A i \in 1 .. Len(workers) :
                   /\ workers'[i].assignedProjectId # id
                   /\ workers[i].assignedProjectId = id
                      => /\ workers'[i].availability
                         /\ workers'[i].assignedProjectId = NoProject]_vars

\* C8: the project that held the workers has just been cancelled and the
\* workers are available.
C8_Witness ==
    /\ ret = Bool(TRUE)
    /\ nextProjectSeq = 1
    /\ projects = EmptyMap
    /\ completedProjects = <<>>
    /\ \A i \in 1 .. Len(workers) :
          workers[i].availability /\ workers[i].assignedProjectId = NoProject

\* C9: cancelProject(id) on an active project charges the cancellation
\* penalty: the report's totalInvestment after the call holds the penalty in
\* place of what the cancelled project had paid.
C9_CancellationPenaltyCharged ==
    [][\A id \in DOMAIN projects :
          (CancelProject(id) /\ cancellationPenalty(projects[id]) > 0)
          => totalInvestment' >=
                totalInvestment - projects[id].totalCostPaid
                + cancellationPenalty(projects[id])]_vars

\* C10: an operation given an id the engine does not know returns a result
\* (not void, which is what it returns on success) and leaves the engine's
\* state and the building list as they are.
C10_UnknownIdsReported ==
    [][/\ \A id \in ProjectIdInputs \cup BuildingIdInputs :
             (id \notin DOMAIN projects /\ CancelProject(id))
             => ret' # Void /\ UNCHANGED <<engineState, buildings, simBuildings>>
       /\ \A id \in WorkerIdInputs \cup {UnknownId} :
             ((\A i \in 1 .. Len(workers) : workers[i].id # id) /\ FireWorker(id))
             => ret' # Void /\ UNCHANGED <<engineState, buildings, simBuildings>>
       /\ \A b \in BuildingObjs, dt \in DeltaTimes :
             (buildings[b].id \notin DOMAIN projects /\ UpdateConstruction(b, dt))
             => ret' # Void /\ UNCHANGED <<engineState, buildings, simBuildings>>
       /\ \A id \in ProjectIdInputs \cup BuildingIdInputs :
             ((\A i \in 1 .. Len(simBuildings) : buildings[simBuildings[i]].id # id)
              /\ RemoveBuilding(id))
             => ret' # Void /\ UNCHANGED <<engineState, buildings, simBuildings>>]_vars

\* the project is active, its building is handed to updateConstruction
\* under the project's id, and the time is past every delivery date ordered
PastEveryOrderedDate(id) ==
    /\ id \in DOMAIN projects
    /\ buildings[1].id = id
    /\ \A m \in MaterialTypes :
          projects[id].deliveryDate[m] = UNDEFINED_DATE \/ projects[id].deliveryDate[m] <= now

\* the project is on the completed list at full progress and its building
\* is operational
CompletedAndOperational(id) ==
    /\ \E k \in 1 .. Len(completedProjects) :
          /\ completedProjects[k].id = id
          /\ completedProjects[k].actualProgress = PROGRESS_ONE
    /\ buildings[1].status = "operational"

\* C26: a project created by startConstruction and never cancelled, whose
\* building updateConstruction keeps being called for with dt > 0, completes
\* once the time is past every ordered delivery date: it reaches progress
\* 1.0, is moved to the completed list and its building becomes operational.
C26_EveryProjectCompletes ==
    \A n \in 1 .. MaxProjects :
        PastEveryOrderedDate(ProjectId(n)) ~> CompletedAndOperational(ProjectId(n))

\* the number of workers assigned to the project
AssignedCount(ws, projectId) ==
    Cardinality({i \in 1 .. Len(ws) : ws[i].assignedProjectId = projectId})

\* C30: for every active project, project.workers is the number of workers
\* whose assignedProjectId is the project, after every startConstruction,
\* phase completion, worker_injury event, hireWorkers and fireWorker; and a
\* step that changes no worker (such as a worker_injury event) never
\* increases project.workers.
C30_ProjectWorkersIsTheAssignedCount ==
    [][/\ \A id \in DOMAIN projects' :
             projects'[id].workers = AssignedCount(workers', id)
       /\ workers' = workers
          => \A id \in DOMAIN projects \cap DOMAIN projects' :
                projects'[id].workers <= projects[id].workers]_vars

---------------------------------------------------------------------------
(* The pathfinder's claims *)

\* the cells an 8-connected walk over walkable cells reaches from the cells seen
RECURSIVE reachableFrom(_, _)
reachableFrom(obs, seen) ==
    LET next == seen \cup {n \in Cells \ obs :
                              \E c \in seen : Abs(c[1] - n[1]) <= 1 /\ Abs(c[2] - n[2]) <= 1}
    IN  IF next = seen THEN seen ELSE reachableFrom(obs, next)

\* the start or the end cell is blocked, or no walkable route joins them
NoWalkableRoute(obs, startPos, endPos) ==
    LET startGrid == worldToGrid(startPos, 1)
        endGrid == worldToGrid(endPos, 1)
    IN  \/ startGrid \in obs
        \/ endGrid \in obs
        \/ endGrid \notin reachableFrom(obs, {startGrid})

\* the position lies outside the world extent of the grid
OutsideExtent(p) ==
    LET halfSize == worldSize \div 2
    IN  p.x < -halfSize \/ p.x >= halfSize \/ p.z < -halfSize \/ p.z >= halfSize

\* the points of the path are equally far apart, in the coordinates named
EvenlySpaced(path, coords) ==
    \A i \in 2 .. Len(path.points) - 1 : \A c \in coords :
        path.points[i + 1][c] - path.points[i][c] = path.points[i][c] - path.points[i - 1][c]

\* the first point of the path is at 'first' and the last at 'last', in the
\* coordinates named
RunsBetween(path, first, last, coords) ==
    /\ Len(path.points) >= 1
    /\ \A c \in coords :
          /\ path.points[1][c] = first[c] * path.den
          /\ path.points[Len(path.points)][c] = last[c] * path.den

\* C11: findPath never throws, whatever the start, the end, the obstacles
\* and the roads, and the waypoint sequence it returns is empty only if the
\* start equals the end.
C11_FindPathAlwaysReturnsWaypoints ==
    /\ ~pathRet.threw
    /\ pathRet.returned /\ Len(pathRet.path.points) = 0
           => pathRet.startPos = pathRet.endPos

\* a search between different positions that found no route has returned
C11_Witness ==
    /\ pathRet.returned
    /\ pathRet.searched
    /\ pathRet.startPos # pathRet.endPos
    /\ search.openSet = <<>>
    /\ search.endNode \notin search.closedSet

\* C12: aStarSearch terminates on every finite grid: each cell moves from
\* the open to the closed set at most once (a closed cell is never open
\* again and no cell is open twice), so the loop makes at most
\* width x height passes.
C12_SearchTerminates ==
    /\ search.iterations <= GridWidth * GridHeight
    /\ Cardinality(search.closedSet) = search.iterations
    /\ \A i \in 1 .. Len(search.openSet) :
          /\ search.openSet[i] \notin search.closedSet
          /\ \A j \in 1 .. Len(search.openSet) :
                search.openSet[i] = search.openSet[j] => i = j

\* a search of four passes or more has ended
C12_Witness ==
    /\ search.status = "done"
    /\ pathRet.searched
    /\ search.iterations >= 4

\* C13: if the start or the end lies outside the world extent of the grid,
\* findPath returns the direct interpolated path and does not run the grid
\* search.
C13_OutsideTheGridMeansDirectPath ==
    /\ search.status = "searching"
           => ~OutsideExtent(search.startPos) /\ ~OutsideExtent(search.endPos)
    /\ pathRet.returned /\ (OutsideExtent(pathRet.startPos) \/ OutsideExtent(pathRet.endPos))
           => /\ ~pathRet.searched
              /\ pathRet.path = generateDirectPath(pathRet.startPos, pathRet.endPos)

\* C14, as stated: if the start or the end cell is not walkable, or no
\* walkable 8-connected route joins them, findPath returns at least three
\* evenly spaced points, the first at the start and the last at the end.
C14_Original ==
    pathRet.returned /\ NoWalkableRoute(obstacles, pathRet.startPos, pathRet.endPos)
        => /\ Len(pathRet.path.points) >= 3
           /\ EvenlySpaced(pathRet.path, {"x", "y", "z"})
           /\ RunsBetween(pathRet.path, pathRet.startPos, pathRet.endPos, {"x", "y", "z"})

\* C14, amended: if the start or the end cell is not walkable, or no
\* walkable 8-connected route joins them, findPath returns at least three
\* evenly spaced points, all at height 0.5, the first above or below the
\* start and the last above or below the end.
C14_BlockedMeansDirectPath ==
    pathRet.returned /\ NoWalkableRoute(obstacles, pathRet.startPos, pathRet.endPos)
        => /\ Len(pathRet.path.points) >= 3
           /\ EvenlySpaced(pathRet.path, {"x", "y", "z"})
           /\ RunsBetween(pathRet.path, pathRet.startPos, pathRet.endPos, {"x", "z"})
           /\ \A i \in 1 .. Len(pathRet.path.points) :
                 pathRet.path.points[i].y = PATH_HEIGHT * pathRet.path.den

\* a search from a walkable cell to a walkable cell it cannot reach has
\* returned
C14_Witness ==
    /\ pathRet.returned
    /\ pathRet.searched
    /\ worldToGrid(pathRet.startPos, 1) \notin obstacles
    /\ worldToGrid(pathRet.endPos, 1) \notin obstacles
    /\ NoWalkableRoute(obstacles, pathRet.startPos, pathRet.endPos)

---------------------------------------------------------------------------
(* The clock's claims *)

\* what CitySimulation keeps and its subsystems keep, the time aside
simulationData ==
    <<simState, updateIntervals, ran.lastRan, buildings, simBuildings, agents, simRoads,
      obstacles, roads, businesses, engineState>>

\* C15: update(currentTime) of a simulation that is paused or not running
\* changes nothing: not totalGameTime, frameCount or lastUpdateTime, not the
\* time any subsystem last ran, not the buildings, the agents or the roads.
C15_IdleUpdateChangesNothing ==
    [][Update(perfNow) /\ (~simState.isRunning \/ simState.isPaused)
           => UNCHANGED simulationData]_vars

\* update was called on a paused simulation after time had passed
C15_Witness ==
    /\ ran.returnedAtOnce
    /\ simState.isRunning
    /\ simState.isPaused
    /\ perfNow > simState.lastUpdateTime
    /\ simState.gameSpeed > 0

\* C16: over start, pause, resume, stop, setGameSpeed and update with
\* non-decreasing timestamps, totalGameTime never decreases; only an update
\* of a running, unpaused simulation changes it, adding
\* (currentTime - lastUpdateTime) x gameSpeed, so nothing at speed 0;
\* lastUpdateTime is the time of the latest effective start, resume or
\* effective update, so that paused and stopped time adds nothing.
C16_TotalGameTimeIsTheScaledRunningTime ==
    [][/\ simState'.totalGameTime >= simState.totalGameTime
       /\ IF Update(perfNow) /\ simState.isRunning /\ ~simState.isPaused
          THEN /\ simState'.totalGameTime
                      = simState.totalGameTime
                        + (perfNow - simState.lastUpdateTime) * simState.gameSpeed
               /\ simState.gameSpeed = 0 => simState'.totalGameTime = simState.totalGameTime
               /\ simState'.lastUpdateTime = perfNow
          ELSE /\ simState'.totalGameTime = simState.totalGameTime
               /\ IF Resume \/ (Start /\ ~simState.isRunning)
                  THEN simState'.lastUpdateTime = perfNow
                  ELSE simState'.lastUpdateTime = simState.lastUpdateTime]_vars

\* an update of a running simulation at a speed above 1, after time in which
\* the simulation did not run: simulated time is behind clock time x speed
C16_Witness ==
    /\ simState.frameCount > 1
    /\ simState.gameSpeed > 1
    /\ simState.totalGameTime > 0
    /\ simState.totalGameTime < perfNow * simState.gameSpeed
    /\ simState.lastUpdateTime = perfNow

\* C17: a gated subsystem (terrain, pathfinding, agents, economics) runs in
\* a tick only if the simulated time since it last ran is at least its
\* interval, so that two runs are never closer than the interval, and a
\* single update runs it at most once.
C17_GatedSystemsKeepTheirInterval ==
    [][Update(perfNow)
           => \A s \in GatedSystemSet :
                 /\ Cardinality({i \in 1 .. Len(ran'.tick) : ran'.tick[i] = s}) <= 1
                 /\ (\E i \in 1 .. Len(ran'.tick) : ran'.tick[i] = s) /\ ran.lastRan[s] # <<>>
                        => simState'.totalGameTime - ran.lastRan[s][1]
                               >= configuredInterval(s)]_vars

\* C18: the orchestrator recomputes the pathfinder's obstacle and road grid
\* in a tick only if the topology (a building added, removed or become
\* operational, a road added) changed since the previous recomputation.
C18_GridRecomputedOnlyOnTopologyChange ==
    [][Update(perfNow) /\ (\E i \in 1 .. Len(ran'.tick) : ran'.tick[i] = "pathfinding")
           => \/ topologyChanged
              \/ \E b \in BuildingObjs : buildings'[b].status # buildings[b].status]_vars

\* C27: after addBuilding of an operational building, removeBuilding of an
\* existing building or addRoad, the first update of a running, unpaused
\* simulation rebuilds the pathfinder's obstacles and roads from the
\* buildings and roads of that moment, whatever the simulated time since the
\* previous rebuild.
C27_TopologyChangeForcesRebuild ==
    [][Update(perfNow) /\ simState.isRunning /\ ~simState.isPaused /\ ran.awaited
           => /\ \E i \in 1 .. Len(ran'.tick) : ran'.tick[i] = "pathfinding"
              /\ obstacles' = updateObstacles(operationalPositions(buildings'))
              /\ roads' = updateRoads(simRoads')]_vars

\* the grid was rebuilt with a road and an obstacle before the simulated
\* time reached the first interval: the rebuild was a forced one
C27_Witness ==
    /\ \E i \in 1 .. Len(ran.tick) : ran.tick[i] = "pathfinding"
    /\ ~ran.awaited
    /\ roads # {}
    /\ obstacles # {}
    /\ simState.totalGameTime < PATHFINDING_INTERVAL

---------------------------------------------------------------------------
(* The economy's claims *)

\* a step of updateEconomy
UpdateEconomyStep ==
    \E dt \in EconDeltaTimes, bldgs \in EconBuildingLists, agts \in EconAgentLists :
        UpdateEconomy(dt, bldgs, agts, NoFluctuation)

\* the store's rule: the business is bankrupt
IsBankrupt(business) ==
    /\ business.daysSinceProfit > BANKRUPT_DAYS * ECON_DT_SCALE
    /\ business.bankruptcyRisk > BANKRUPT_RISK

\* C19: after every updateEconomy, every business satisfies
\* profit = revenue - operatingCosts.
C19_ProfitIsRevenueLessCosts ==
    [][UpdateEconomyStep
           => \A i \in 1 .. Len(businesses') :
                 businesses'[i].profit
                     = businesses'[i].revenue - businesses'[i].operatingCosts]_vars

\* C20: updateEconomy removes a business from the list once it is bankrupt
\* (daysSinceProfit and bankruptcyRisk above their thresholds) or once its
\* building is no longer among the buildings passed, so that neither kind
\* is in getBusinesses() after it.
C20_BankruptBusinessesAreRemoved ==
    [][\A dt \in EconDeltaTimes, bldgs \in EconBuildingLists, agts \in EconAgentLists :
           UpdateEconomy(dt, bldgs, agts, NoFluctuation)
               => \A i \in 1 .. Len(businesses') :
                     /\ ~IsBankrupt(businesses'[i])
                     /\ findBuilding(bldgs, businesses'[i].buildingId) # 0]_vars

\* C21: in an empty world (no buildings, no agents, no businesses) the
\* report updateEconomy returns has gdp 0, unemployment 0 and trade balance 0.
C21_EmptyWorldReportIsZero ==
    [][\A dt \in ReportDeltaTimes, rnd \in ReportDraws :
           (businesses = <<>> /\ UpdateEconomy(dt, <<>>, <<>>, rnd))
               => /\ report'.gdp = 0
                  /\ report'.unemployment = 0
                  /\ report'.tradeBalance = 0]_vars

\* C22: updateEconomy is deterministic: from the same engine, with the same
\* deltaTime, buildings and agents, every call returns the same report and
\* leaves the same engine, whatever Math.random returns.
C22_UpdateEconomyIsDeterministic ==
    [][\A dt \in ReportDeltaTimes, bldgs \in ReportBuildingLists,
          agts \in ReportAgentLists, rnd1 \in ReportDraws, rnd2 \in ReportDraws :
           UpdateEconomy(dt, bldgs, agts, rnd1) => UpdateEconomy(dt, bldgs, agts, rnd2)]_vars

\* two businesses that differ in nothing but their id and their building
OtherwiseIdentical(a, b) ==
    [a EXCEPT !.id = b.id, !.buildingId = b.buildingId] = b

\* C23: with the home fully occupied and two otherwise identical shops 5 and
\* 15 units from it, after updateEconomy over some time the shop at 5 has
\* strictly more revenue than the shop at 15.
C23_NearerShopEarnsMore ==
    [][\A dt \in ReportDeltaTimes \ {0}, rnd \in ReportDraws :
           UpdateEconomy(dt, DistanceWorld, Residents, rnd)
               => \A i, j \in 1 .. Len(businesses) :
                     (/\ businesses[i].buildingId = NearShopId
                      /\ businesses[j].buildingId = FarShopId
                      /\ OtherwiseIdentical(businesses[i], businesses[j]))
                         => businesses'[i].revenue > businesses'[j].revenue]_vars

\* C24: whatever updateTerrainValues, addWaterBody, the spreading of
\* pollution, the filtration by water and the natural recovery did, every
\* terrain cell has a currentValue from 0 to 1.
C24_CellValueIsBounded ==
    \A c \in TerrainCellIds :
        terrainCells[c].currentValue >= 0 /\ terrainCells[c].currentValue <= FRACTION

\* a cell whose value was brought up to 0 under the pollution of a factory,
\* beside water added later
C24_Witness ==
    /\ terrainCalls > 0
    /\ Len(waterBodies) > 1
    /\ \E c \in TerrainCellIds :
          /\ terrainCells[c].currentValue = 0
          /\ terrainCells[c].pollution > FRACTION
          /\ cellFactors(Terrain, c).value < 0

\* C25: whatever the passes over the cells, spreadPollution,
\* updateWaterQuality and naturalRecovery did, with deltaTime >= 0, every
\* terrain cell has pollution >= 0 and noise >= 0.
C25_PollutionAndNoiseAreNotNegative ==
    \A c \in TerrainCellIds :
        terrainCells[c].pollution >= 0 /\ terrainCells[c].noise >= 0

\* a cell that factors pollute and fill with noise, with no pollution and no
\* noise left after the recovery
C25_Witness ==
    /\ terrainCalls > 1
    /\ \E c \in TerrainCellIds :
          /\ cellFactors(Terrain, c).pollution > 0
          /\ cellFactors(Terrain, c).noise > NOISE_THRESHOLD
          /\ terrainCells[c].pollution = 0
          /\ terrainCells[c].noise = 0

\* C28: no accepted city update is lost by CitySync: the last update that
\* updateCity stored for a city is still in the queue, or was passed to
\* storage.updateCity in a call that was not rejected
C28_NoAcceptedUpdateIsLost ==
    \A c \in CityIds :
        lastAccepted[c] > 0
            => \/ syncQueue[c].known /\ syncQueue[c].data = lastAccepted[c]
               \/ /\ <<c, lastAccepted[c]>> \in storageCalls
                  /\ <<c, lastAccepted[c]>> \notin storageFailures

\* C29: an achievement that was unlocked stays unlocked, through the rest of
\* the checkAchievements pass that unlocked it and through every later call,
\* and is unlocked, with its reward, at most once
C29_UnlockedStaysUnlocked ==
    \A i \in 1 .. Len(achievements) :
        /\ unlockCount[achievements[i].id] > 0 => achievements[i].isUnlocked
        /\ unlockCount[achievements[i].id] <= 1

---------------------------------------------------------------------------
(* The terrain's pollution *)

\* the pollution factors of a list that reach the cell
pollutionReaching(factors, c) ==
    {i \in 1 .. Len(factors) :
        /\ factors[i].type = "pollution"
        /\ planarDistance(c, factors[i].source) <= factors[i].radius}

hasOperationalBuilding(bldgs, business) ==
    /\ findBuilding(bldgs, business.buildingId) # 0
    /\ bldgs[findBuilding(bldgs, business.buildingId)].status = "operational"

\* C36: after every updateEconomy a business is marked isOperational exactly
\* when its building is among the buildings passed with status operational;
\* so a business whose building was missing or not operational in an
\* earlier update is marked operational again once its building is.
C36_OperationalFollowsTheBuilding ==
    [][\A dt \in EconDeltaTimes, bldgs \in EconBuildingLists, agts \in EconAgentLists :
           UpdateEconomy(dt, bldgs, agts, NoFluctuation)
               => \A i \in 1 .. Len(businesses') :
                     businesses'[i].isOperational
                         <=> hasOperationalBuilding(bldgs, businesses'[i])]_vars

\* Math.min(1, daysSinceProfit / 30), in thousandths
riskOf(daysSinceProfit) ==
    Min(FRACTION, (daysSinceProfit * FRACTION) \div (RISK_DAYS * ECON_DT_SCALE))

\* C37: for each business that updateEconomy processes with elapsed time dt:
\* daysSinceProfit becomes 0 if the new profit is > 0 and grows by exactly dt
\* otherwise; bankruptcyRisk is min(1, daysSinceProfit / 30), within [0, 1],
\* 0 right after a profitable update and, after an unprofitable one, not
\* below the risk an earlier update left.  (A step of updateEconomy with dt
\* and the buildings either shows all this or is no such step.)
C37_DaysSinceProfitAndRisk ==
    [][\A dt \in EconDeltaTimes, bldgs \in ProfitBuildingLists, agts \in EconAgentLists :
           \/ econCalls' # econCalls + 1
           \/ \A i \in 1 .. Len(businesses) :
                 hasOperationalBuilding(bldgs, businesses[i])
                     => LET before == businesses[i]
                            after == businesses'[i]
                        IN  /\ after.profit > 0 => after.daysSinceProfit = 0
                            /\ after.profit <= 0
                                   => after.daysSinceProfit = before.daysSinceProfit + dt
                            /\ after.bankruptcyRisk = riskOf(after.daysSinceProfit)
                            /\ after.bankruptcyRisk >= 0
                            /\ after.bankruptcyRisk <= FRACTION
                            /\ after.profit > 0 => after.bankruptcyRisk = 0
                            /\ (/\ after.profit <= 0
                                /\ before.bankruptcyRisk = riskOf(before.daysSinceProfit))
                                   => after.bankruptcyRisk >= before.bankruptcyRisk
           \/ businesses' # updateBusinesses(businesses, bldgs, agts, dt)
           \/ ~UpdateEconomy(dt, bldgs, agts, NoFluctuation)]_vars

\* after two updates, a shop that lost money in both and a busy shop that
\* has just made a profit
C37_Witness ==
    /\ econCalls = 2
    /\ \E i \in 1 .. Len(businesses) :
          /\ businesses[i].profit < 0
          /\ businesses[i].daysSinceProfit = 2 * 20
          /\ businesses[i].bankruptcyRisk > 0
          /\ businesses[i].bankruptcyRisk < FRACTION
    /\ \E i \in 1 .. Len(businesses) :
          /\ businesses[i].profit > 0
          /\ businesses[i].footTraffic = 10 * FRACTION
          /\ businesses[i].daysSinceProfit = 0
          /\ businesses[i].bankruptcyRisk = 0

(* The taxes *)

\* the property tax of a day on a building at the configured rate of its
\* zone, in cents: rate / 100 * property_value / 12 / 30
configuredPropertyTax(data, building) ==
    (building.property_value * CENTS * data.taxRate[building.zoneType])
        \div (PERCENT * MONTHS_PER_YEAR * DAYS_PER_MONTH)

\* the tax on the profit of a business, in cents
businessProfitTax(business) ==
    IF business.isOperational /\ business.profit > 0
    THEN business.profit \div BUSINESS_TAX_DIVISOR
    ELSE 0

\* C38: updateTaxation adds for every operational zoned building the
\* property tax at the configured rate of its zone, whatever that rate is, 0
\* included, and the tax on the profit of the businesses that are operational
\* with a profit > 0, and nothing else.  (A step of updateEconomy with the
\* buildings either leaves this total or is no such step.)
C38_TaxesAtTheConfiguredRate ==
    [][\A dt \in EconDeltaTimes, bldgs \in ProfitBuildingLists, agts \in EconAgentLists :
           \/ econCalls' # econCalls + 1
           \/ LET operational == {i \in 1 .. Len(bldgs) : bldgs[i].status = "operational"}
                  all == 1 .. Len(businesses')
              IN  economicData'.totalTaxRevenue
                      = SumOver([i \in operational |->
                                    configuredPropertyTax(economicData, bldgs[i])],
                                operational)
                        + SumOver([i \in all |-> businessProfitTax(businesses'[i])], all)
           \/ ~UpdateEconomy(dt, bldgs, agts, NoFluctuation)]_vars

(* The rating of the city *)

\* the place of a letter in the order AAA > AA > A > BBB > BB > B > CCC: 1
\* for the best
tierOf(letter) == CHOOSE k \in 1 .. Len(cityRatings) : cityRatings[k] = letter

\* the letter the report gives the city of an engine
cityRatingOf(E) == generateEconomicReport(updateCityRating(E), <<>>, <<>>).cityRating

\* the engine a step leaves
EngineAfter ==
    [businesses |-> businesses', tradeGoods |-> tradeGoods',
     inflationRate |-> inflationRate', economicData |-> economicData']

\* C39: the cityRating letter of the report is monotone in the credit score:
\* of the city before an updateEconomy and the city it leaves and reports
\* on, the one with the higher score never has the lower tier in the order
\* AAA > AA > A > BBB > BB > B > CCC.
C39_RatingIsMonotoneInTheScore ==
    [][econCalls' = econCalls + 1
           => /\ creditScore(EngineAfter) > creditScore(Engine)
                     => tierOf(report'.cityRating) <= tierOf(cityRatingOf(Engine))
              /\ creditScore(EngineAfter) < creditScore(Engine)
                     => tierOf(report'.cityRating) >= tierOf(cityRatingOf(Engine))]_vars

(* The delays of the projects *)

\* C40: isDelayed is true only while the project is blocked: after an
\* updateConstruction that found the materials of the current phase
\* available, advanced the progress and drew no event, the project (if it
\* is still active) is not delayed, and delayedProjects of
\* generateConstructionReport does not count it.
C40_DelayedOnlyWhileBlocked ==
    [][\A b \in BuildingObjs, dt \in DeltaTimes :
          LET key == buildings[b].id
          IN  \/ updateCalls' # updateCalls + 1
              \/ key \notin DOMAIN projects
              \/ key \notin DOMAIN projects'
              \/ ~checkMaterialAvailability(projects[key],
                                            PhaseAt(projects[key].currentPhase), now)
              \/ projects'[key].actualProgress <= projects[key].actualProgress
              \/ /\ ~projects'[key].isDelayed
                 /\ delayedProjects([projects |-> projects'])
                        <= Cardinality(DOMAIN projects' \ {key})
              \/ \A rnd \in RndChoices(St, b, dt) :
                    rnd.fires \/ ~Install(updateConstruction(St, b, dt, rnd))]_vars

(* The pathfinder's routes *)

\* the total cost of a route: the cost of every step, as calculateDistance
\* gives it
routeCost(rds, cells) ==
    SumOver([i \in 1 .. Len(cells) - 1 |-> calculateDistance(rds, cells[i], cells[i + 1])],
            1 .. Len(cells) - 1)

LeastOf(S) == CHOOSE m \in S : \A x \in S : m <= x

\* the exhaustive reference: the least cost of an 8-connected walkable route
\* from the start to every cell, by relaxing every step until nothing changes
RECURSIVE leastCosts(_, _, _)
leastCosts(obs, rds, dist) ==
    LET relaxed ==
            [c \in Cells |->
                IF c \in obs THEN Infinity
                ELSE LeastOf({dist[c]} \cup
                             {dist[n] + calculateDistance(rds, n, c) :
                                 n \in {m \in Cells \ obs :
                                           /\ m # c
                                           /\ Abs(m[1] - c[1]) <= 1
                                           /\ Abs(m[2] - c[2]) <= 1
                                           /\ dist[m] < Infinity}})]
    IN  IF relaxed = dist THEN dist ELSE leastCosts(obs, rds, relaxed)

leastCost(obs, rds, startNode, endNode) ==
    leastCosts(obs, rds, [c \in Cells |-> IF c = startNode THEN 0 ELSE Infinity])[endNode]

\* the search has ended with a route to the end cell
RouteFound ==
    /\ search.status = "done"
    /\ pathRet.returned
    /\ pathRet.searched
    /\ search.endNode \in search.closedSet

\* the route aStarSearch returned
foundRoute == reconstructPath(search.parent, search.endNode)

\* C31: on any grid, with or without road cells, the route aStarSearch
\* returns has the least total cost of all 8-connected walkable routes from
\* the start to the goal, a step costing its length, halved into a road cell
C31_RouteHasLeastCost ==
    RouteFound
        => routeCost(roads, foundRoute)
               = leastCost(obstacles, roads, search.startNode, search.endNode)

\* sub is seq with some elements left out
RECURSIVE IsSubsequence(_, _)
IsSubsequence(sub, seq) ==
    IF sub = <<>> THEN TRUE
    ELSE IF seq = <<>> THEN FALSE
    ELSE IF Head(sub) = Head(seq) THEN IsSubsequence(Tail(sub), Tail(seq))
    ELSE IsSubsequence(sub, Tail(seq))

\* C32: when the start and the end cell are walkable and joined by a
\* walkable route, the route the search finds begins at the start cell, ends
\* at the end cell, holds walkable cells only, each the neighbour of the one
\* before, and the waypoints findPath returns are that route with some cells
\* left out, the first and the last kept
C32_RouteAndWaypointsAreSound ==
    RouteFound
        => LET positions == [i \in 1 .. Len(foundRoute) |-> nodePosition(foundRoute[i])]
               waypoints == pathRet.path.points
           IN  /\ Len(foundRoute) >= 1
               /\ foundRoute[1] = worldToGrid(pathRet.startPos, 1)
               /\ foundRoute[Len(foundRoute)] = worldToGrid(pathRet.endPos, 1)
               /\ \A i \in 1 .. Len(foundRoute) : isWalkable(obstacles, foundRoute[i])
               /\ \A i \in 1 .. Len(foundRoute) - 1 :
                     /\ foundRoute[i] # foundRoute[i + 1]
                     /\ Abs(foundRoute[i][1] - foundRoute[i + 1][1]) <= 1
                     /\ Abs(foundRoute[i][2] - foundRoute[i + 1][2]) <= 1
               /\ pathRet.path.den = 1
               /\ IsSubsequence(waypoints, positions)
               /\ waypoints[1] = positions[1]
               /\ waypoints[Len(waypoints)] = positions[Len(positions)]

\* a route was found on a grid with blocked cells and smoothing left cells out
C32_Witness ==
    /\ RouteFound
    /\ obstacles # {}
    /\ Len(foundRoute) >= 3
    /\ Len(pathRet.path.points) < Len(foundRoute)

\* the index of a cell in a route that visits no cell twice
indexIn(route, c) == CHOOSE i \in 1 .. Len(route) : route[i] = c

\* C33: in smoothPath the waypoint kept after a kept waypoint p is the
\* farthest later waypoint of the raw route with a line of sight to p, or
\* p's successor when none beyond it is visible: no later waypoint visible
\* from p is skipped for a nearer one
C33_SmoothingKeepsTheFarthestVisible ==
    RouteFound
        => LET raw == [i \in 1 .. Len(foundRoute) |-> nodePosition(foundRoute[i])]
               kept == pathRet.path.points
           IN  \A k \in 1 .. Len(kept) - 1 :
                   LET p == indexIn(raw, kept[k])
                       visible == {i \in p + 2 .. Len(raw) :
                                      hasLineOfSight(obstacles, raw[p], raw[i])}
                   IN  \A i \in visible : indexIn(raw, kept[k + 1]) >= i

---------------------------------------------------------------------------
(* The pathfinder's grid *)

\* the cell and the footprint overlap
covers(fp, c) ==
    LET halfSize == worldSize \div 2
        lowX == -halfSize + c[1] * cellSize
        lowZ == -halfSize + c[2] * cellSize
    IN  /\ fp.position.x - fp.halfWidth < lowX + cellSize
        /\ fp.position.x + fp.halfWidth >= lowX
        /\ fp.position.z - fp.halfDepth < lowZ + cellSize
        /\ fp.position.z + fp.halfDepth >= lowZ

\* C34: updateObstacles(L) is a full recomputation: afterwards a cell is
\* blocked exactly when the footprint of some building in L covers it,
\* whatever was blocked before, a second call with the same L gives the same
\* grid, and the road cells are unchanged
C34_UpdateObstaclesIsAFullRecomputation ==
    [][\A L \in FootprintLists :
          UpdateObstacles(L)
              => /\ \A c \in Cells :
                       c \in obstacles' <=> \E i \in 1 .. Len(L) : covers(L[i], c)
                 /\ updateObstaclesOf(L) = obstacles'
                 /\ roads' = roads]_vars

====
